---- MODULE Spec2Model ----
(***************************************************************************)
(* Model of the Wirepas provisioning server's per-session state machine    *)
(* (wirepas_provisioning_server/session.py) together with the frames it    *)
(* builds (message.py) and the transport, timer thread and router that     *)
(* surround it.                                                            *)
(*                                                                         *)
(* One ProvisioningSession is modelled as the record `session`.  The       *)
(* session thread advances from one suspension point to the next: the      *)
(* blocking event_q.get() of run(), and every synchronous send_func() call *)
(* made by _process_start.  The timer thread (threading.Timer) and the     *)
(* router thread (on_data_received) run concurrently with it.              *)
(***************************************************************************)
EXTENDS Integers, Sequences, FiniteSets, TLC

VARIABLES
    session,    \* the fields of the ProvisioningSession object and its thread
    sent,       \* every send_func invocation made so far, with its result
    delivered,  \* number of frames the router has put in event_q
    sessions,   \* ProvisioningServer.sessions: key -> session object
    objects,    \* the ProvisioningSession objects the server has created
    transport,  \* the transport thread inside on_data_received
    finished,   \* every on_session_finish invocation made so far
    codec,      \* a frame taken through payload and from_message
    config      \* a node description taken through the configuration code

\* The server around the sessions, and the codec on its own.
server == <<sessions, objects, transport, finished>>

vars == <<session, sent, delivered, sessions, objects, transport, finished, codec,
          config>>

(***************************************************************************)
(* Bounds of the model.                                                    *)
(***************************************************************************)
\* Number of inbound frames the router delivers to the session.
MaxDeliver == 2
\* The timeout period, in timer ticks (self.timeout seconds in the code).
TimeoutTicks == 2
\* The retry counter is followed down to this value below zero.
RetryFloor == 3

(***************************************************************************)
(* Program constants.                                                      *)
(***************************************************************************)
\* retry: int = 1
DefaultRetry == 1
\* random.getrandbits(16) draws from 0 .. 2^16 - 1
CounterBits == 16

Pow2(n) == 2 ^ n

\* Seeds of the session counter explored: both ends of getrandbits(16)'s
\* range and the value one below the upper end.
CounterSeeds == {0, Pow2(CounterBits) - 2, Pow2(CounterBits) - 1}

\* ProvisioningMessageTypes
START == 1
DATA == 2
DATA_ACK == 3
NACK == 4

\* ProvisioningMethod
UNSECURED == 0
SECURED == 1
EXTENDED == 3

\* ProvisioningNackReason
NOT_AUTHORIZED == 0
METHOD_NOT_SUPPORTED == 1

\* The routing key (source_address, node_address, session_id) of the session.
session_id == <<5, <<1, 2, 3, 4>>, 66>>
\* The response endpoint pair resolved at session creation.
resp_ep == <<255, 246>>

(***************************************************************************)
(* The loaded configuration (ProvisioningData): a dict keyed by UID.       *)
(* "uidS" is provisioned with the SECURED method and a 32-byte factory     *)
(* key, "uidU" with the UNSECURED method; "uidX" is not configured.        *)
(***************************************************************************)
FactoryKeyS == [i \in 1..32 |-> IF i <= 16 THEN 160 + i ELSE 100 + i]

data ==
    [u \in {"uidS", "uidU"} |->
        IF u = "uidS"
        THEN [method |-> SECURED, factory_key |-> FactoryKeyS, bundle |-> <<162, 0, 1>>]
        ELSE [method |-> UNSECURED, factory_key |-> <<>>, bundle |-> <<162, 0, 2>>]]

\* ProvisioningData.getCbor: the CBOR-encoded bundle of a configured UID.
getCbor(uid) == data[uid].bundle

UIDs == {"uidS", "uidU", "uidX"}

(***************************************************************************)
(* Byte-level helpers.                                                     *)
(***************************************************************************)
\* bytes[a:b] of Python, on 1-based sequences: elements a+1 .. b, clamped to
\* the length of bytes (slicing never raises).
Slice(bytes, a, b) ==
    LET hi == IF b < Len(bytes) THEN b ELSE Len(bytes)
    IN  IF a + 1 > hi THEN <<>> ELSE SubSeq(bytes, a + 1, hi)

\* int.to_bytes(2, byteorder="little"): defined for 0 <= n < 2^16 only.
FitsU16(n) == n >= 0 /\ n < Pow2(16)
LE16(n) == <<n % 256, n \div 256>>

\* int.from_bytes(b, byteorder="little") of a 2-byte string.
FromLE16(b) == b[1] + 256 * b[2]

\* (n + int.from_bytes(bytes, "little")) % 2^(8*len), as little-endian bytes.
RECURSIVE LEAdd(_, _)
LEAdd(bytes, n) ==
    IF bytes = <<>> THEN <<>>
    ELSE LET t == Head(bytes) + n
         IN  <<t % 256>> \o LEAdd(Tail(bytes), t \div 256)

ZeroIV == [i \in 1..16 |-> 0]

(***************************************************************************)
(* Frames (message.py).  A decoded inbound frame carries the envelope      *)
(* (gw_id, sink_id, tx_time).  Fields a frame type does not have are 0 or   *)
(* empty.                                                                  *)
(***************************************************************************)
Origins == {[gw_id |-> "g1", sink_id |-> "s1", tx_time |-> 1],
            [gw_id |-> "g2", sink_id |-> "s2", tx_time |-> 2]}

Msg(t, method, iv, uid, reason, o) ==
    [msg_type |-> t, method |-> method, iv |-> iv, uid |-> uid, reason |-> reason,
     gw_id |-> o.gw_id, sink_id |-> o.sink_id, tx_time |-> o.tx_time]

NoMsg == [msg_type |-> 0, method |-> 0, iv |-> <<>>, uid |-> "", reason |-> 0,
          gw_id |-> "", sink_id |-> "", tx_time |-> 0]

StartFrames ==
    {Msg(START, m, ZeroIV, u, 0, o) :
        m \in {UNSECURED, SECURED}, u \in UIDs, o \in Origins}

OtherFrames ==
    {Msg(t, 0, <<>>, "", 0, o) : t \in {DATA, DATA_ACK, NACK}, o \in Origins}

Frames == StartFrames \cup OtherFrames

\* ProvisioningMessage.payload: the 6-byte header common to all frames.
HeaderPayload(msg_type) == <<msg_type>> \o session_id[2] \o <<session_id[3]>>

NoPayload == [hdr |-> <<>>, data |-> <<>>, mic |-> <<>>]

\* ProvisioningMessageNACK.payload
NackPayload(reason) ==
    [hdr |-> HeaderPayload(NACK) \o <<reason>>, data |-> <<>>, mic |-> <<>>]

\* ProvisioningMessageDATA.payload: header, key_index, counter (LE16), then
\* the data field and the MIC.
DataPayload(counter, data_bytes, key_index, mic) ==
    [hdr |-> HeaderPayload(DATA) \o <<key_index>> \o LE16(counter),
     data |-> data_bytes, mic |-> mic]

\* Fields of an encoded DATA frame.
KeyIndexOf(payload) == payload.hdr[7]
CounterOf(payload) == FromLE16(Slice(payload.hdr, 7, 9))
IsData(payload) == Len(payload.hdr) = 9 /\ payload.hdr[1] = DATA
IsNack(payload) == Len(payload.hdr) = 7 /\ payload.hdr[1] = NACK

(***************************************************************************)
(* Session object (ProvisioningSession.__init__) and its collaborators.    *)
(***************************************************************************)
States == {"IDLE", "WAIT_RESPONSE"}

Statuses == {"ONGOING", "SUCCESS", "FAILURE", "ERROR_NO_ACK", "ERROR_SENDING_DATA",
             "ERROR_SENDING_NACK", "ERROR_NOT_AUTHORIZED", "ERROR_NOT_START",
             "ERROR_INVALID_STATE", "ERROR_NACK_RECEIVED", "ERROR_NO_RESPONSE"}

\* self._timer: None, or a threading.Timer that is armed (waiting), has fired
\* (its function ran) or was cancelled; `left` is the time an armed timer
\* still has to wait.
NoTimer == [obj |-> "none", left |-> 0]

\* Position of the session thread:
\*   "run"        at the head of run()'s loop (blocked in event_q.get())
\*   "send_data"  in _process_start, about to call _send_packet(pkt)
\*   "send_nack"  in _process_start, about to call _send_packet(NACK)
\*   "nack_loop"  in the NACK loop of _process_start, with no send left
\*   "finished"   finish_cb was called and the thread ended
\*   "crashed"    an exception left run() and ended the thread
Positions == {"run", "send_data", "send_nack", "nack_loop", "finished", "crashed"}

NewSession(seed) ==
    [session_id |-> session_id,
     resp_ep  |-> resp_ep,
     retry    |-> DefaultRetry,
     event_q  |-> <<>>,
     counter  |-> seed,
     state    |-> "IDLE",
     status   |-> "ONGOING",
     timer    |-> NoTimer,
     \* the Timer threads of the session that were started and have neither
     \* fired nor been cancelled
     running  |-> 0,
     sink_id  |-> "",
     gw_id    |-> "",
     tx_time  |-> 0,
     \* the thread: its position and the locals of the handler it is in
     pc       |-> "run",
     caller   |-> "none",
     msg      |-> NoMsg,
     pkt |-> NoPayload]

\* Events of events.py.
PacketReceived(msg) == [type |-> "packet_rxd", msg |-> msg]
Timeout == [type |-> "timeout", msg |-> NoMsg]

\* _update_origin
UpdateOrigin(s, msg) ==
    IF msg.tx_time # 0 /\ s.tx_time < msg.tx_time
    THEN [s EXCEPT !.sink_id = msg.sink_id, !.gw_id = msg.gw_id,
                   !.tx_time = msg.tx_time]
    ELSE s

\* _timer_cancel: cancel(), join() and forget the timer.
TimerCancel(s) ==
    [s EXCEPT !.timer = NoTimer,
              !.running = IF s.timer.obj = "armed" THEN @ - 1 ELSE @]

\* `if self._timer is not None: self._timer.cancel()` of the NACK path: the
\* timer is cancelled but stays referenced; cancelling a timer that has
\* fired changes nothing.
TimerCancelOnly(s) ==
    IF s.timer.obj = "armed"
    THEN [s EXCEPT !.timer = [obj |-> "cancelled", left |-> 0],
                   !.running = @ - 1]
    ELSE s

\* Faulty variant of TimerStart: the new Timer is created but never started.
TimerStart_NeverStarted(s) == TimerCancel(s)

\* Faulty variant of TimerStart: a timer that is already running is left to run.
TimerStart_KeepsRunning(s) ==
    IF s.timer.obj = "armed" THEN s
    ELSE [s EXCEPT !.timer = [obj |-> "armed", left |-> TimeoutTicks],
                   !.running = @ + 1]

\* Faulty variant of TimerStart: the previous timer is neither cancelled nor
\* joined, the new one takes its place in self._timer.
TimerStart_PreviousLeftRunning(s) ==
    [s EXCEPT !.timer = [obj |-> "armed", left |-> TimeoutTicks],
              !.running = @ + 1]

\* _timer_start: cancel a previous timer, then arm a new one for the whole
\* timeout period.
TimerStart(s) ==
    [TimerCancel(s) EXCEPT !.timer = [obj |-> "armed", left |-> TimeoutTicks],
                           !.running = @ + 1]

(***************************************************************************)
(* _encrypt_packet.  AES and CMAC are kept symbolic: a ciphertext records  *)
(* the key, the initial counter block and the text it encrypts, a MIC the  *)
(* key and the octets it authenticates.                                    *)
(***************************************************************************)
\* The counter after `self.counter += 1`.
IncrementCounter(counter) == counter + 1

\* to_auth: the DATA frame layout with the counter and the plain text.
ToAuth(counter, plain_text) == DataPayload(counter, plain_text, 1, <<>>)

\* mic = CMAC(auth_key, to_auth)[0:5]
Mic(auth_key, to_auth) == [alg |-> "CMAC-AES[0:5]", key |-> auth_key, msg |-> to_auth]

\* Faulty variant of Icb: the counter is taken as it was before its increment.
Icb_BeforeIncrement(counter, iv) == LEAdd(iv, counter - 1)

\* icb = (counter + int.from_bytes(iv, "little")) % 2**128, little-endian.
Icb(counter, iv) == LEAdd(iv, counter)

EncryptPacket(counter, uid, iv, plain_text) ==
    LET enc_key  == Slice(data[uid].factory_key, 16, 32)
        auth_key == Slice(data[uid].factory_key, 0, 16)
        mic      == Mic(auth_key, ToAuth(counter, plain_text))
    IN  [alg |-> "AES-CTR", key |-> enc_key, icb |-> Icb(counter, iv),
         text |-> plain_text, mic |-> mic]

(***************************************************************************)
(* _process_start, from its entry to its first _send_packet call.          *)
(***************************************************************************)
\* Faulty variant of Authorized: the method of the START is not compared.
Authorized_UidOnly(msg) == msg.uid \in DOMAIN data

\* The START is served: its UID is configured with the START's method.
Authorized(msg) == msg.uid \in DOMAIN data /\ data[msg.uid].method = msg.method

\* Faulty variant of HeaderCounter: the header is built from the counter as it was
\* before the encryption step.
HeaderCounter_BeforeIncrement(before, after) == before

\* The counter read for the DATA header (self.counter at the construction
\* of pkt), given its value before and after the encryption step.
HeaderCounter(before, after) == after

\* Faulty variant of KeyIndex: the two key indexes are exchanged.
KeyIndex_Exchanged(method) == IF method = UNSECURED THEN 1 ELSE 0

\* key_idx: 0 for the UNSECURED method, 1 (the factory key) otherwise.
KeyIndex(method) == IF method = UNSECURED THEN 0 ELSE 1

ProcessStartData(s, msg) ==
    LET c          == IF msg.method = UNSECURED THEN s.counter
                      ELSE IncrementCounter(s.counter)
        hc         == HeaderCounter(s.counter, c)
        key_idx    == KeyIndex(msg.method)
        data_bytes == IF msg.method = UNSECURED THEN getCbor(msg.uid)
                      ELSE EncryptPacket(c, msg.uid, msg.iv, getCbor(msg.uid))
    IN  IF FitsU16(c) /\ FitsU16(hc)
        THEN [s EXCEPT !.counter = c, !.msg = msg, !.pc = "send_data",
                       !.pkt = DataPayload(hc, data_bytes, key_idx, <<>>)]
        \* counter.to_bytes(2, ...) raises OverflowError: nothing catches it
        ELSE [s EXCEPT !.counter = c, !.msg = msg, !.pc = "crashed"]

\* Faulty variants of NackReason: one reason whatever the cause.
NackReason_AlwaysMethod(msg) == METHOD_NOT_SUPPORTED
NackReason_AlwaysNotAuthorized(msg) == NOT_AUTHORIZED

NackReason(msg) ==
    IF msg.uid \notin DOMAIN data THEN NOT_AUTHORIZED ELSE METHOD_NOT_SUPPORTED

ProcessStartNack(s, msg) ==
    [s EXCEPT !.status = "ERROR_NOT_AUTHORIZED", !.msg = msg, !.pc = "send_nack",
              !.pkt = NackPayload(NackReason(msg))]

\* Faulty variant of ProcessStart: each START is given the whole retry budget.
ProcessStart_FreshBudget(s, msg) ==
    LET fresh == [s EXCEPT !.retry = DefaultRetry]
    IN  IF Authorized(msg) THEN ProcessStartData(fresh, msg)
        ELSE ProcessStartNack(fresh, msg)

ProcessStart(s, msg) ==
    IF Authorized(msg) THEN ProcessStartData(s, msg) ELSE ProcessStartNack(s, msg)

\* The handler returns to run(): _state_wait_response restarts the timer
\* after _process_start, _state_idle does nothing more.
Return(s) ==
    LET t == IF s.caller = "wait" THEN TimerStart(s) ELSE s
    IN  [t EXCEPT !.pc = "run", !.caller = "none", !.msg = NoMsg,
                  !.pkt = NoPayload]

(***************************************************************************)
(* _process_start, from the return of a _send_packet call to the next      *)
(* call or to the end of the handler.                                      *)
(***************************************************************************)
\* Outcomes of self.send_func: a GatewayResultCode, or a TimeoutError.
SendOutcomes == {"GW_RES_OK", "GW_RES_INTERNAL_ERROR", "TimeoutError"}

\* Faulty variant of SendPacketResult: the TimeoutError is handed on as it is.
SendPacketResult_NotCaught(outcome) == outcome

\* _send_packet: a TimeoutError is turned into GW_RES_INTERNAL_ERROR.
SendPacketResult(outcome) ==
    IF outcome = "TimeoutError" THEN "GW_RES_INTERNAL_ERROR" ELSE outcome

\* Faulty variant of MayRetry: the test is `retry > 0`.
MayRetry_OffByOne(retry) == retry > 0

\* The session may send once more: `if self.retry >= 0`.
MayRetry(retry) == retry >= 0

\* Faulty variant of AfterSendData: a successful send arms the timer but the state
\* is not set to WAIT_RESPONSE.
AfterSendData_StateNotSet(s, res) ==
    IF res = "GW_RES_OK"
    THEN Return(TimerStart(s))
    ELSE LET r == s.retry - 1
         IN  IF MayRetry(r)
             THEN [s EXCEPT !.retry = r]
             ELSE Return([TimerCancel(s) EXCEPT
                             !.retry = r, !.status = "ERROR_SENDING_DATA"])

\* Faulty variant of AfterSendData: when the budget is spent the handler ends
\* without setting the status.
AfterSendData_ExhaustionIgnored(s, res) ==
    IF res = "GW_RES_OK"
    THEN Return(TimerStart([s EXCEPT !.state = "WAIT_RESPONSE"]))
    ELSE LET r == s.retry - 1
         IN  IF MayRetry(r)
             THEN [s EXCEPT !.retry = r]
             ELSE Return([TimerCancel(s) EXCEPT !.retry = r])

\* Faulty variant of AfterSendData: a retry builds the frame anew, with the
\* counter incremented.
AfterSendData_RetryRebuilds(s, res) ==
    IF res = "GW_RES_OK"
    THEN Return(TimerStart([s EXCEPT !.state = "WAIT_RESPONSE"]))
    ELSE LET r == s.retry - 1
             c == (s.counter + 1) % Pow2(CounterBits)
         IN  IF MayRetry(r)
             THEN [s EXCEPT !.retry = r, !.counter = c,
                            !.pkt = DataPayload(c, s.pkt.data, KeyIndexOf(s.pkt), <<>>)]
             ELSE Return([TimerCancel(s) EXCEPT
                             !.retry = r, !.status = "ERROR_SENDING_DATA"])

\* The DATA loop, after _send_packet returned res.
AfterSendData(s, res) ==
    IF res = "GW_RES_OK"
    THEN Return(TimerStart([s EXCEPT !.state = "WAIT_RESPONSE"]))
    ELSE LET r == s.retry - 1
         IN  IF MayRetry(r)
             THEN [s EXCEPT !.retry = r]
             ELSE Return([TimerCancel(s) EXCEPT
                             !.retry = r, !.status = "ERROR_SENDING_DATA"])

\* The NACK loop, after _send_packet returned res.  Its last branch sets the
\* status and neither breaks nor returns: the loop goes on.
AfterSendNack(s, res) ==
    IF res = "GW_RES_OK"
    THEN Return([TimerCancelOnly(s) EXCEPT !.status = "ERROR_NOT_AUTHORIZED"])
    ELSE LET r == s.retry - 1
         IN  IF MayRetry(r)
             THEN [s EXCEPT !.retry = r]
             ELSE [TimerCancelOnly(s) EXCEPT
                      !.retry = r, !.status = "ERROR_SENDING_NACK",
                      !.pc = "nack_loop"]

\* One more turn of the NACK loop once the budget is spent: res is still
\* the failed result, retry is decremented and is below 0.
NackLoopTurn(s) ==
    LET r == s.retry - 1
    IN  IF MayRetry(r)
        THEN [s EXCEPT !.retry = r, !.pc = "send_nack"]
        ELSE [TimerCancelOnly(s) EXCEPT
                 !.retry = r, !.status = "ERROR_SENDING_NACK"]

(***************************************************************************)
(* _state_idle and _state_wait_response, up to the first _send_packet.     *)
(***************************************************************************)
\* Faulty variant of StateIdle: an event that is not a START is ignored.
StateIdle_OtherIgnored(s, event) ==
    IF event.type = "packet_rxd" /\ event.msg.msg_type = START
    THEN ProcessStart([UpdateOrigin(s, event.msg) EXCEPT !.caller = "idle"],
                      event.msg)
    ELSE s

\* Faulty variant of StateIdle: a DATA_ACK received in IDLE is taken for the
\* acknowledgement of a DATA frame.
StateIdle_AckAccepted(s, event) ==
    IF event.type = "packet_rxd" /\ event.msg.msg_type = START
    THEN ProcessStart([UpdateOrigin(s, event.msg) EXCEPT !.caller = "idle"],
                      event.msg)
    ELSE IF event.type = "packet_rxd" /\ event.msg.msg_type = DATA_ACK
    THEN [TimerCancel(s) EXCEPT !.status = "SUCCESS"]
    ELSE [TimerCancel(s) EXCEPT !.status = "ERROR_NOT_START"]

StateIdle(s, event) ==
    IF event.type = "packet_rxd" /\ event.msg.msg_type = START
    THEN ProcessStart([UpdateOrigin(s, event.msg) EXCEPT !.caller = "idle"],
                      event.msg)
    ELSE [TimerCancel(s) EXCEPT !.status = "ERROR_NOT_START"]

\* Faulty variant of StateWaitResponse: a NACK sets the status and leaves the
\* timer running.
StateWaitResponse_NackKeepsTimer(s, event) ==
    IF event.type = "packet_rxd"
    THEN LET o == UpdateOrigin(s, event.msg)
         IN  CASE event.msg.msg_type = START ->
                    ProcessStart([o EXCEPT !.caller = "wait"], event.msg)
               [] event.msg.msg_type = DATA_ACK ->
                    [TimerCancel(o) EXCEPT !.status = "SUCCESS"]
               [] event.msg.msg_type = NACK ->
                    [o EXCEPT !.status = "ERROR_NACK_RECEIVED"]
               [] OTHER -> o
    ELSE IF event.type = "timeout"
    THEN [TimerCancel(s) EXCEPT !.status = "ERROR_NO_RESPONSE"]
    ELSE s

\* Faulty variant of StateWaitResponse: a Timeout takes the session back to
\* IDLE, where it waits for another START.
StateWaitResponse_TimeoutToIdle(s, event) ==
    IF event.type = "packet_rxd"
    THEN LET o == UpdateOrigin(s, event.msg)
         IN  CASE event.msg.msg_type = START ->
                    ProcessStart([o EXCEPT !.caller = "wait"], event.msg)
               [] event.msg.msg_type = DATA_ACK ->
                    [TimerCancel(o) EXCEPT !.status = "SUCCESS"]
               [] event.msg.msg_type = NACK ->
                    [TimerCancel(o) EXCEPT !.status = "ERROR_NACK_RECEIVED"]
               [] OTHER -> o
    ELSE IF event.type = "timeout"
    THEN [TimerCancel(s) EXCEPT !.state = "IDLE"]
    ELSE s

StateWaitResponse(s, event) ==
    IF event.type = "packet_rxd"
    THEN LET o == UpdateOrigin(s, event.msg)
         IN  CASE event.msg.msg_type = START ->
                    ProcessStart([o EXCEPT !.caller = "wait"], event.msg)
               [] event.msg.msg_type = DATA_ACK ->
                    [TimerCancel(o) EXCEPT !.status = "SUCCESS"]
               [] event.msg.msg_type = NACK ->
                    [TimerCancel(o) EXCEPT !.status = "ERROR_NACK_RECEIVED"]
               [] OTHER -> o
    ELSE IF event.type = "timeout"
    THEN [TimerCancel(s) EXCEPT !.status = "ERROR_NO_RESPONSE"]
    ELSE s

\* Faulty variant of Get: the newest event leaves the queue first.
Get_Newest(q) == [event |-> q[Len(q)], rest |-> SubSeq(q, 1, Len(q) - 1)]

\* event_q.get(block=True) on a queue.Queue: the oldest event leaves the
\* queue.
Get(q) == [event |-> Head(q), rest |-> Tail(q)]

\* Faulty variant of LoopCondition: the loop of run() never ends.
LoopCondition_Forever(s) == TRUE

\* `while self.status == ProvisioningStatus.ONGOING` of run().
LoopCondition(s) == s.status = "ONGOING"

\* The body of run()'s loop for one dequeued event.
Dispatch(s, event) ==
    IF s.state = "IDLE" THEN StateIdle(s, event)
    ELSE IF s.state = "WAIT_RESPONSE" THEN StateWaitResponse(s, event)
    ELSE [s EXCEPT !.status = "ERROR_INVALID_STATE"]

\* Faulty variant of SendCall: the frame goes out on the pair exchanged.
SendCall_PairExchanged(s, res) ==
    [gw_id |-> s.gw_id, sink_id |-> s.sink_id, dest |-> s.session_id[1],
     src_ep |-> s.resp_ep[2], dst_ep |-> s.resp_ep[1], qos |-> 1,
     payload |-> s.pkt, res |-> res]

\* One send_func invocation as the transport sees it.
SendCall(s, res) ==
    [gw_id |-> s.gw_id, sink_id |-> s.sink_id, dest |-> s.session_id[1],
     src_ep |-> s.resp_ep[1], dst_ep |-> s.resp_ep[2], qos |-> 1,
     payload |-> s.pkt, res |-> res]

(***************************************************************************)
(* The codec of message.py on byte strings: `payload` of each frame class  *)
(* and ProvisioningMessageFactory.map with the from_message it calls.      *)
(* A frame is a record of the fields its class holds.                      *)
(***************************************************************************)
\* bytes[a:-back] of Python.
SliceBack(bytes, a, back) ==
    Slice(bytes, a, IF Len(bytes) > back THEN Len(bytes) - back ELSE 0)

\* int.from_bytes(b, byteorder="little", signed=True) for at most 2 bytes.
FromLESigned(b) ==
    LET u == IF Len(b) = 0 THEN 0
             ELSE IF Len(b) = 1 THEN b[1]
             ELSE b[1] + 256 * b[2]
        top == Pow2(8 * Len(b))
    IN  IF Len(b) > 0 /\ 2 * u >= top THEN u - top ELSE u

StartFrame(node_address, sid, method, iv, uid) ==
    [msg_type |-> START, node_address |-> node_address, session_id |-> sid,
     method |-> method, iv |-> iv, uid |-> uid]

DataFrame(node_address, sid, key_index, counter, data_bytes, mic) ==
    [msg_type |-> DATA, node_address |-> node_address, session_id |-> sid,
     key_index |-> key_index, counter |-> counter, data |-> data_bytes,
     mic |-> mic]

DataAckFrame(node_address, sid) ==
    [msg_type |-> DATA_ACK, node_address |-> node_address, session_id |-> sid]

NackFrame(node_address, sid, reason) ==
    [msg_type |-> NACK, node_address |-> node_address, session_id |-> sid,
     reason |-> reason]

\* The `payload` property of the four frame classes.
Payload(f) ==
    LET hdr == <<f.msg_type>> \o f.node_address \o <<f.session_id>>
    IN  CASE f.msg_type = START -> hdr \o <<f.method>> \o f.iv \o f.uid
          [] f.msg_type = DATA ->
                hdr \o <<f.key_index>> \o LE16(f.counter) \o f.data \o f.mic
          [] f.msg_type = DATA_ACK -> hdr
          [] f.msg_type = NACK -> hdr \o <<f.reason>>

\* Outcome of a decoding: the frame, or the exception that left it.
Decoded(f) == [exc |-> "none", frame |-> f]
Raised(exc) == [exc |-> exc, frame |-> [msg_type |-> 0]]

\* ProvisioningMessageSTART.from_message and the constructor it calls.
StartFromMessage(dp) ==
    IF Len(dp) < 7 THEN Raised("IndexError")
    ELSE IF dp[7] \notin {UNSECURED, SECURED, EXTENDED}
    THEN Raised("ProvisioningMessageException")
    ELSE LET iv  == Slice(dp, 7, 23)
             uid == Slice(dp, 23, Len(dp))
         IN  IF Len(iv) # 16 \/ Len(uid) = 0
             THEN Raised("ProvisioningMessageException")
             ELSE Decoded(StartFrame(Slice(dp, 1, 5), dp[6], dp[7], iv, uid))

\* ProvisioningMessageDATA.from_message: the counter is read from
\* message.payload (the transport's own serialisation of the event, wp), the
\* data field is data_payload[9:-6] and the MIC data_payload[:-5].
DataFromMessage(dp, wp) ==
    LET counter    == FromLESigned(Slice(wp, 7, 9))
        data_bytes == SliceBack(dp, 9, 6)
        mic        == SliceBack(dp, 0, 5)
    IN  IF Len(dp) < 7 THEN Raised("IndexError")
        ELSE IF Len(data_bytes) = 0
        THEN Raised("ProvisioningMessageException")
        ELSE IF Len(mic) \notin {0, 5}
        THEN Raised("ProvisioningMessageException")
        ELSE Decoded(DataFrame(Slice(dp, 1, 5), dp[6], dp[7], counter,
                               data_bytes, mic))

\* ProvisioningMessageDATA_ACK.from_message
DataAckFromMessage(dp) ==
    IF Len(dp) < 6 THEN Raised("IndexError")
    ELSE Decoded(DataAckFrame(Slice(dp, 1, 5), dp[6]))

\* Faulty variant of NackFromMessage: the reason byte is not validated.
NackFromMessage_AnyReason(dp) ==
    IF Len(dp) < 7 THEN Raised("IndexError")
    ELSE Decoded(NackFrame(Slice(dp, 1, 5), dp[6], dp[7]))

\* ProvisioningMessageNACK.from_message
NackFromMessage(dp) ==
    IF Len(dp) < 7 THEN Raised("IndexError")
    ELSE IF dp[7] \notin {NOT_AUTHORIZED, METHOD_NOT_SUPPORTED}
    THEN Raised("ProvisioningMessageException")
    ELSE Decoded(NackFrame(Slice(dp, 1, 5), dp[6], dp[7]))

\* ProvisioningMessageFactory.map: KeyError, TypeError and ValueError become
\* ProvisioningMessageException; any other exception passes through.
Map(dp, wp) ==
    IF Len(dp) = 0 THEN Raised("IndexError")
    ELSE CASE dp[1] = START -> StartFromMessage(dp)
           [] dp[1] = DATA -> DataFromMessage(dp, wp)
           [] dp[1] = DATA_ACK -> DataAckFromMessage(dp)
           [] dp[1] = NACK -> NackFromMessage(dp)
           [] OTHER -> Raised("ProvisioningMessageException")

\* Frames taken through the codec.
CodecAddresses == {<<1, 2, 3, 4>>, <<255, 0, 128, 7>>}
CodecIVs == {ZeroIV, [i \in 1..16 |-> 239 + i]}
CodecUids == {<<83>>, <<0, 17, 18, 19>>}
CodecData == {<<162>>, <<162, 0, 1>>, <<162, 0, 1, 1, 2, 24, 128>>}
CodecMics == {<<>>, <<9, 8, 7, 6, 5>>}
CodecCounters == {0, 513, Pow2(15) - 1, Pow2(15), Pow2(16) - 1}

CodecFrames ==
    {StartFrame(a, 66, m, iv, u) :
        a \in CodecAddresses, m \in {UNSECURED, SECURED, EXTENDED},
        iv \in CodecIVs, u \in CodecUids}
    \cup {DataFrame(<<1, 2, 3, 4>>, 66, k, c, d, mic) :
        k \in {0, 1}, c \in CodecCounters, d \in CodecData, mic \in CodecMics}
    \cup {DataAckFrame(a, 66) : a \in CodecAddresses}
    \cup {NackFrame(a, 66, r) :
        a \in CodecAddresses, r \in {NOT_AUTHORIZED, METHOD_NOT_SUPPORTED}}

CodecIdle == [pc |-> "idle", frame |-> [msg_type |-> 0], raw |-> <<>>,
              result |-> Raised("none")]

(***************************************************************************)
(* ProvisioningServer (provisioning_server.py): the session table and the  *)
(* transport thread that runs on_data_received for each uplink packet.     *)
(***************************************************************************)
\* Bounds of the server model: uplink packets received, and the source
\* addresses they come from.
MaxCalls == 2

SourceAddresses == {5, 6}

\* The envelope of the packets the server receives.
ServerOrigin == [gw_id |-> "g1", sink_id |-> "s1", tx_time |-> 1]

\* The UIDs of the configuration as the byte strings START frames carry.
UidBytes == [uidS |-> <<83>>, uidU |-> <<85>>, uidX |-> <<88>>]

UidName(uid) ==
    IF \E n \in DOMAIN UidBytes : UidBytes[n] = uid
    THEN CHOOSE n \in DOMAIN UidBytes : UidBytes[n] = uid
    ELSE "uidX"

\* ProvisioningMessage.msg_id
MsgId(source_address, f) == <<source_address, f.node_address, f.session_id>>

\* The decoded frame as the session handlers read it.
MsgOf(f, o) ==
    Msg(f.msg_type,
        IF f.msg_type = START THEN f.method ELSE 0,
        IF f.msg_type = START THEN f.iv ELSE <<>>,
        IF f.msg_type = START THEN UidName(f.uid) ELSE "",
        IF f.msg_type = NACK THEN f.reason ELSE 0,
        o)

\* Payloads of the uplink packets: well-formed frames of each type, and
\* byte strings that are not frames.
ServerAddress == session_id[2]
ServerSid == session_id[3]

WellFormedRaws ==
    {Payload(StartFrame(ServerAddress, ServerSid, SECURED, ZeroIV, UidBytes.uidS)),
     Payload(StartFrame(ServerAddress, ServerSid, SECURED, ZeroIV, UidBytes.uidX)),
     Payload(DataFrame(ServerAddress, ServerSid, 1, 513, <<162>>, <<>>)),
     Payload(DataAckFrame(ServerAddress, ServerSid)),
     Payload(NackFrame(ServerAddress, ServerSid, NOT_AUTHORIZED))}

MalformedRaws ==
    {<<>>,                                          \* empty payload
     <<DATA_ACK, 1, 2>>,                            \* shorter than the header
     <<9>> \o ServerAddress \o <<ServerSid>>,       \* unknown message type
     <<START>> \o ServerAddress \o <<ServerSid>>,   \* START without method
     <<START>> \o ServerAddress \o <<ServerSid, 2>> \o ZeroIV \o UidBytes.uidS,
                                                    \* unknown method
     <<START>> \o ServerAddress \o <<ServerSid, SECURED>> \o ZeroIV,
                                                    \* START without UID
     <<START>> \o ServerAddress \o <<ServerSid, SECURED>> \o Tail(ZeroIV),
                                                    \* START with a 15-byte IV
     <<NACK>> \o ServerAddress \o <<ServerSid>>,    \* NACK without reason
     <<NACK>> \o ServerAddress \o <<ServerSid, 7>>} \* unknown NACK reason

ServerRaws == WellFormedRaws \cup MalformedRaws

\* Counter seeds of the sessions the server creates.
ServerSeeds == {0}

\* The session object created for a key.
NewSessionFor(key, seed) == [NewSession(seed) EXCEPT !.session_id = key]

\* The endpoint pairs of the configuration (provisioning_data_conf), on
\* whose request pairs on_data_received is registered: the historical pair
\* and a second one.
data_endpoints ==
    {[req_ep |-> <<246, 255>>, resp_ep |-> resp_ep],
     [req_ep |-> <<247, 254>>, resp_ep |-> <<254, 247>>]}

\* (data.source_endpoint, data.destination_endpoint) of an uplink packet:
\* the node of the first source address sends on the historical request
\* pair, the other node on the second pair.
req_ep(source) ==
    IF source = session_id[1] THEN <<246, 255>> ELSE <<247, 254>>

\* provisioning_data_conf.get_resp_ep_by_req_ep: the response pair
\* configured for a request pair.
get_resp_ep_by_req_ep(pair) ==
    (CHOOSE ep \in data_endpoints : ep.req_ep = pair).resp_ep

\* The transport thread: where it is in on_data_received, the packet of the
\* call it is in (or of its last call), and how its last call ended:
\*   "returned"  the event was put in a session's queue
\*   "dropped"   ProvisioningMessageException was caught, the call returned
\*   otherwise   the name of the exception that left on_data_received
TransportIdle ==
    [pc |-> "idle", raw |-> <<>>, source |-> 0, msg |-> NoMsg, key |-> <<>>,
     obj |-> 0, outcome |-> "none", calls |-> 0]

Transports == {"t1"}

\* Faulty variant of Registered: the lookup never finds the key.
Registered_NeverFound(table, key) == FALSE

\* self.sessions[key] finds an entry.
Registered(table, key) == key \in DOMAIN table

\* del self.sessions[key]
Unregister(table, key) == [k \in DOMAIN table \ {key} |-> table[k]]

\* self.sessions[key] = the object of index n
Register(table, key, n) ==
    [k \in DOMAIN table \cup {key} |-> IF k = key THEN n ELSE table[k]]

\* event_q.put(ev) on the object of index n.
Put(objs, n, ev) == [objs EXCEPT ![n].event_q = Append(@, ev)]

\* on_data_received up to its first access to the session table: the packet
\* is decoded; a ProvisioningMessageException ends the call, any other
\* exception leaves it, and a decoded frame is looked up by its msg_id.
Receive(tr, table, raw, wp, source) ==
    LET r    == Map(raw, wp)
        base == [tr EXCEPT !.raw = raw, !.source = source, !.msg = NoMsg,
                           !.key = <<>>, !.obj = 0, !.calls = @ + 1]
    IN  IF r.exc = "ProvisioningMessageException"
        THEN [base EXCEPT !.outcome = "dropped"]
        ELSE IF r.exc # "none"
        THEN [base EXCEPT !.outcome = r.exc]
        ELSE LET key == MsgId(source, r.frame)
                 m   == MsgOf(r.frame, ServerOrigin)
             IN  IF Registered(table, key)
                 THEN [base EXCEPT !.msg = m, !.key = key, !.obj = table[key],
                                   !.pc = "put", !.outcome = "none"]
                 ELSE [base EXCEPT !.msg = m, !.key = key, !.pc = "create",
                                   !.outcome = "none"]

(***************************************************************************)
(* The configuration (data.py, models.py).  ProvisioningData.__init__      *)
(* reads one node description and its network from the configuration file, *)
(* append stores the entry of the UID, and getCbor builds from that entry  *)
(* the map that cbor2 serialises item by item into the provisioning        *)
(* bundle.  NodeV1 (models.py) validates the address given to a node.      *)
(*                                                                         *)
(* A dictionary is a function whose domain holds the keys that are         *)
(* present.  An optional argument is None, or the one-element sequence     *)
(* holding its value.                                                      *)
(***************************************************************************)
None == <<>>

\* The descriptions read from the file: a network with or without address
\* and channel, a node with or without node_id, node_role and user_specific
\* parameters, under indexes inside and outside 128..255.
NetworkCfgs ==
    {[k \in {"encryption_key", "authentication_key"} \cup optional |->
        CASE k = "encryption_key" -> <<170, 187>>
          [] k = "authentication_key" -> <<255, 254>>
          [] k = "address" -> 1053422
          [] k = "channel" -> 13] :
     optional \in SUBSET {"address", "channel"}}

UserSpecifics ==
    {[k \in indexes |-> <<117, k % 16>>] :
     indexes \in {{}, {128}, {255}, {128, 200}, {127}, {256}, {0}, {5},
                  {4, 128}}}

NodeCfgs ==
    {[k \in {"method", "factory_key"} \cup optional |->
        CASE k = "method" -> SECURED
          [] k = "factory_key" -> FactoryKeyS
          [] k = "node_id" -> 4660
          [] k = "node_role" -> 1
          [] k = "user_specific" -> us] :
     optional \in SUBSET {"node_id", "node_role", "user_specific"},
     us \in UserSpecifics}

\* helpers.convert_to_bytes of an integer below 256: to_bytes over
\* max(1, bit_length + 7) // 8 bytes, which is no byte at all for 0.
convert_to_bytes(param_raw) ==
    IF param_raw = 0 THEN <<>> ELSE <<param_raw>>

\* Faulty variant of UserSpecificIndex: any index is let through.
UserSpecificIndex_Unchecked(k) == k >= 0

\* __init__: the test made on each index of user_specific.
UserSpecificIndex(k) == ~(k < 128 \/ k > 255)

\* append: the entry stored for the UID.
append(method, encryption_key, authentication_key, network_address, network_channel, node_id, node_role, user_specific, factory_key) ==
    LET Given(name, value) == IF value # None THEN name :> value[1] ELSE <<>>
    IN  [method |-> method, encryption_key |-> encryption_key,
         authentication_key |-> authentication_key]
        @@ Given("network_address", network_address)
        @@ Given("network_channel", network_channel)
        @@ Given("node_id", node_id)
        @@ Given("node_role", node_role)
        @@ Given("user_specific", user_specific)
        @@ Given("factory_key", factory_key)

\* __init__, for one node of the file: the entry appended, or the
\* exception raised.  Integers are left as they are by convert_to_int.
ProvisioningData(network, node_cfg) ==
    LET Read(cfg, name) == IF name \in DOMAIN cfg THEN <<cfg[name]>> ELSE None
        node_role == IF "node_role" \in DOMAIN node_cfg
                     THEN <<convert_to_bytes(node_cfg["node_role"])>>
                     ELSE None
    IN  IF /\ "user_specific" \in DOMAIN node_cfg
           /\ \E k \in DOMAIN node_cfg["user_specific"] : ~UserSpecificIndex(k)
        THEN [exc |-> "KeyError", entry |-> None]
        ELSE [exc |-> "none",
              entry |-> <<append(node_cfg["method"],
                                 network["encryption_key"],
                                 network["authentication_key"],
                                 Read(network, "address"),
                                 Read(network, "channel"),
                                 Read(node_cfg, "node_id"),
                                 node_role,
                                 Read(node_cfg, "user_specific"),
                                 Read(node_cfg, "factory_key"))>>]

\* getCbor: the map handed to cbor2.dumps.  The user specific items are
\* written last, over whatever the map holds under their index.
self_dic(entry) ==
    LET Item(dic, key, name) ==
            IF name \in DOMAIN entry THEN (key :> entry[name]) @@ dic ELSE dic
        keys == (0 :> entry["encryption_key"])
                @@ (1 :> entry["authentication_key"])
        fixed == Item(Item(Item(Item(keys, 2, "network_address"),
                             3, "network_channel"), 4, "node_id"),
                     5, "node_role")
    IN  IF "user_specific" \in DOMAIN entry
        THEN entry["user_specific"] @@ fixed
        ELSE fixed

\* A node address, which does not fit a model integer, as the digits
\* <<top, high, low>> of top * 2^32 + high * 2^16 + low, with high and low
\* in 0..65535; top is 0 for a 32-bit value, -1 for the negative numbers
\* next to zero, 1 for the numbers from 2^32 on.
NodeIds ==
    {<<top, high, low>> :
        top \in {-1, 0, 1},
        high \in {0, 1, 32767, 32768, 33023, 33024, 65535},
        low \in {0, 1, 65533, 65534, 65535}}

\* a <= b on such numbers.
LessOrEqual(a, b) ==
    \/ a[1] < b[1]
    \/ a[1] = b[1] /\ a[2] < b[2]
    \/ a[1] = b[1] /\ a[2] = b[2] /\ a[3] <= b[3]

\* Faulty variant of check_node_id: the second range starts at 0x80000000.
check_node_id_ReservedAccepted(node_id) ==
    IF \/ /\ LessOrEqual(<<0, 0, 1>>, node_id)
          /\ LessOrEqual(node_id, <<0, 32767, 65535>>)
       \/ /\ LessOrEqual(<<0, 32768, 0>>, node_id)
          /\ LessOrEqual(node_id, <<0, 65535, 65533>>)
    THEN [exc |-> "none", node_id |-> <<node_id>>]
    ELSE [exc |-> "ValueError", node_id |-> None]

\* NodeV1.check_node_id: the value is returned when it lies in
\* [0x00000001, 0x7FFFFFFF] or [0x81000000, 0xFFFFFFFD], ValueError is
\* raised otherwise, which ends the construction of the NodeV1.
check_node_id(node_id) ==
    IF \/ /\ LessOrEqual(<<0, 0, 1>>, node_id)
          /\ LessOrEqual(node_id, <<0, 32767, 65535>>)
       \/ /\ LessOrEqual(<<0, 33024, 0>>, node_id)
          /\ LessOrEqual(node_id, <<0, 65535, 65533>>)
    THEN [exc |-> "none", node_id |-> <<node_id>>]
    ELSE [exc |-> "ValueError", node_id |-> None]

ConfigIdle ==
    [pc |-> "idle", network |-> <<>>, node_cfg |-> <<>>,
     loaded |-> [exc |-> "none", entry |-> None], bundle |-> <<>>,
     node_id |-> <<0, 0, 0>>, node |-> [exc |-> "none", node_id |-> None]]

(***************************************************************************)
(* Actions.                                                                *)
(***************************************************************************)
Init ==
    /\ session \in {NewSession(seed) : seed \in CounterSeeds}
    /\ sent = <<>>
    /\ delivered = 0
    /\ sessions = <<>>
    /\ objects = <<>>
    /\ transport = [t \in Transports |-> TransportIdle]
    /\ finished = <<>>
    /\ codec = CodecIdle
    /\ config = ConfigIdle

\* Router thread (on_data_received): a decoded frame with the session's key
\* is put in the event queue of the session found in the table.
Deliver(msg) ==
    /\ delivered < MaxDeliver
    /\ session.pc # "finished"
    /\ session' = [session EXCEPT !.event_q = Append(@, PacketReceived(msg))]
    /\ delivered' = delivered + 1
    /\ UNCHANGED <<sent, server, codec, config>>

\* Timer thread: time passes for an armed timer.
TimerTick ==
    /\ session.timer.obj = "armed"
    /\ session.timer.left > 1
    /\ session' = [session EXCEPT !.timer.left = @ - 1]
    /\ UNCHANGED <<sent, delivered, server, codec, config>>

\* Timer thread: the period is over, _timeout puts a Timeout event.
TimerFire ==
    /\ session.timer.obj = "armed"
    /\ session.timer.left = 1
    /\ session' = [session EXCEPT !.timer = [obj |-> "fired", left |-> 0],
                                  !.running = @ - 1,
                                  !.event_q = Append(@, Timeout)]
    /\ UNCHANGED <<sent, delivered, server, codec, config>>

\* Session thread, run(): dequeue one event and handle it.
HandleEvent ==
    /\ session.pc = "run"
    /\ LoopCondition(session)
    /\ session.event_q # <<>>
    /\ session' = Dispatch([session EXCEPT !.event_q = Get(@).rest],
                           Get(session.event_q).event)
    /\ UNCHANGED <<sent, delivered, server, codec, config>>

\* Session thread, _process_start: one _send_packet(data_pkt) call.
SendData(outcome) ==
    /\ session.pc = "send_data"
    /\ LET res == SendPacketResult(outcome)
       IN  /\ sent' = Append(sent, SendCall(session, res))
           /\ session' = AfterSendData(session, res)
    /\ UNCHANGED <<delivered, server, codec, config>>

\* Session thread, _process_start: one _send_packet(NACK) call.
SendNack(outcome) ==
    /\ session.pc = "send_nack"
    /\ LET res == SendPacketResult(outcome)
       IN  /\ sent' = Append(sent, SendCall(session, res))
           /\ session' = AfterSendNack(session, res)
    /\ UNCHANGED <<delivered, server, codec, config>>

\* Session thread, _process_start: the NACK loop turns without sending.
NackLoop ==
    /\ session.pc = "nack_loop"
    /\ session.retry > -RetryFloor
    /\ session' = NackLoopTurn(session)
    /\ UNCHANGED <<sent, delivered, server, codec, config>>

\* Session thread, run(): the loop ends and finish_cb is called.
Finish ==
    /\ session.pc = "run"
    /\ ~LoopCondition(session)
    /\ session' = [session EXCEPT !.pc = "finished"]
    /\ UNCHANGED <<sent, delivered, server, codec, config>>

SessionStep ==
    \/ HandleEvent
    \/ \E outcome \in SendOutcomes : SendData(outcome)
    \/ \E outcome \in SendOutcomes : SendNack(outcome)
    \/ NackLoop
    \/ Finish

TimerStep == TimerTick \/ TimerFire

Next ==
    \/ \E msg \in Frames : Deliver(msg)
    \/ TimerTick
    \/ TimerFire
    \/ HandleEvent
    \/ \E outcome \in SendOutcomes : SendData(outcome)
    \/ \E outcome \in SendOutcomes : SendNack(outcome)
    \/ NackLoop
    \/ Finish

Spec == Init /\ [][Next]_vars

\* The session thread and the timer thread are scheduled by the operating
\* system: each keeps running while it has a step to take.  Nothing obliges
\* the mesh to deliver frames.
FairSpec == Spec /\ WF_vars(SessionStep) /\ WF_vars(TimerStep)

TypeOK ==
    /\ session.state \in States
    /\ session.status \in Statuses
    /\ session.pc \in Positions
    /\ session.timer.obj \in {"none", "armed", "fired", "cancelled"}
    /\ delivered \in 0..MaxDeliver

(***************************************************************************)
(* The session fed with frames that differ in their envelope: two gateways *)
(* with distinct tx_time, a third with the tx_time of the second, and one  *)
(* whose tx_time is 0 (rx_time_ms_epoch = travel_time_ms).                 *)
(***************************************************************************)
OriginEnvelopes ==
    Origins \cup {[gw_id |-> "g3", sink_id |-> "s3", tx_time |-> 2],
                  [gw_id |-> "g0", sink_id |-> "s0", tx_time |-> 0]}

OriginFrames ==
    {Msg(START, SECURED, ZeroIV, u, 0, o) :
        u \in {"uidS", "uidX"}, o \in OriginEnvelopes}
    \cup {Msg(DATA, 0, <<>>, "", 0, o) : o \in OriginEnvelopes}

OriginNext ==
    \/ \E msg \in OriginFrames : Deliver(msg)
    \/ SessionStep
    \/ TimerStep

OriginSpec == Init /\ [][OriginNext]_vars

(***************************************************************************)
(* The server: the transport thread in on_data_received, and the thread of *)
(* every session it has created.  A thread takes one step from one access  *)
(* to shared data (the session table, a session's queue) to the next.      *)
(***************************************************************************)
\* The variables of the single-session model and of the codec, which the
\* server leaves alone.
aside == <<session, delivered, codec, config>>

\* on_data_received is called with an uplink packet: decoding and the
\* lookup self.sessions[msg_data.msg_id].
OnDataReceived(t, raw, wp, source) ==
    /\ transport[t].pc = "idle"
    /\ transport[t].calls < MaxCalls
    /\ transport' = [transport EXCEPT ![t] = Receive(@, sessions, raw, wp, source)]
    /\ UNCHANGED <<sessions, objects, finished, sent, aside>>

\* .event_q.put(ev) on the session that was found, and the return.
PutEvent(t) ==
    /\ transport[t].pc = "put"
    /\ objects' = Put(objects, transport[t].obj, PacketReceived(transport[t].msg))
    /\ transport' = [transport EXCEPT ![t].pc = "idle", ![t].outcome = "returned"]
    /\ UNCHANGED <<sessions, finished, sent, aside>>

\* except KeyError: a ProvisioningSession is created (its thread starts) and
\* stored in the table under the key.
CreateSession(t, seed) ==
    /\ transport[t].pc = "create"
    /\ objects' = Append(objects,
                         [NewSessionFor(transport[t].key, seed) EXCEPT
                             !.resp_ep = get_resp_ep_by_req_ep(
                                             req_ep(transport[t].source))])
    /\ sessions' = Register(sessions, transport[t].key, Len(objects) + 1)
    /\ transport' = [transport EXCEPT ![t].pc = "put_new"]
    /\ UNCHANGED <<finished, sent, aside>>

\* self.sessions[msg_data.msg_id].event_q.put(ev) after the creation: the
\* table is read again.
PutFirstEvent(t) ==
    /\ transport[t].pc = "put_new"
    /\ IF Registered(sessions, transport[t].key)
       THEN /\ objects' = Put(objects, sessions[transport[t].key],
                              PacketReceived(transport[t].msg))
            /\ transport' = [transport EXCEPT ![t].pc = "idle",
                                              ![t].outcome = "returned"]
       ELSE /\ objects' = objects
            /\ transport' = [transport EXCEPT ![t].pc = "idle",
                                              ![t].outcome = "KeyError"]
    /\ UNCHANGED <<sessions, finished, sent, aside>>

\* Faulty variant of ThreadHandleEvent: the sessions take their events from one
\* queue shared by all of them, so the get of one session also takes the
\* oldest event away from the others.
ThreadHandleEvent_SharedQueue(i) ==
    /\ objects[i].pc = "run"
    /\ LoopCondition(objects[i])
    /\ objects[i].event_q # <<>>
    /\ objects' = [j \in DOMAIN objects |->
                      IF j = i
                      THEN Dispatch([objects[i] EXCEPT !.event_q = Get(@).rest],
                                    Get(objects[i].event_q).event)
                      ELSE IF objects[j].event_q # <<>>
                      THEN [objects[j] EXCEPT !.event_q = Get(@).rest]
                      ELSE objects[j]]
    /\ UNCHANGED <<sessions, transport, finished, sent, aside>>

\* The thread of session object i: run() dequeues one event and handles it.
ThreadHandleEvent(i) ==
    /\ objects[i].pc = "run"
    /\ LoopCondition(objects[i])
    /\ objects[i].event_q # <<>>
    /\ objects' = [objects EXCEPT ![i] =
                      Dispatch([@ EXCEPT !.event_q = Get(@).rest],
                               Get(objects[i].event_q).event)]
    /\ UNCHANGED <<sessions, transport, finished, sent, aside>>

ThreadSendData(i, outcome) ==
    /\ objects[i].pc = "send_data"
    /\ LET res == SendPacketResult(outcome)
       IN  /\ sent' = Append(sent, SendCall(objects[i], res))
           /\ objects' = [objects EXCEPT ![i] = AfterSendData(@, res)]
    /\ UNCHANGED <<sessions, transport, finished, aside>>

ThreadSendNack(i, outcome) ==
    /\ objects[i].pc = "send_nack"
    /\ LET res == SendPacketResult(outcome)
       IN  /\ sent' = Append(sent, SendCall(objects[i], res))
           /\ objects' = [objects EXCEPT ![i] = AfterSendNack(@, res)]
    /\ UNCHANGED <<sessions, transport, finished, aside>>

ThreadNackLoop(i) ==
    /\ objects[i].pc = "nack_loop"
    /\ objects[i].retry > -RetryFloor
    /\ objects' = [objects EXCEPT ![i] = NackLoopTurn(@)]
    /\ UNCHANGED <<sessions, transport, finished, sent, aside>>

\* The timer thread of session object i: the timeout period is over.
ThreadTimeout(i) ==
    /\ objects[i].timer.obj = "armed"
    /\ objects' = [objects EXCEPT ![i].timer = [obj |-> "fired", left |-> 0],
                                  ![i].running = @ - 1,
                                  ![i].event_q = Append(@, Timeout)]
    /\ UNCHANGED <<sessions, transport, finished, sent, aside>>

\* run() leaves its loop and calls finish_cb, which is on_session_finish:
\* self.sessions[key] is read for the log line, then deleted.  A key that
\* is not in the table raises KeyError in the session thread.
OnSessionFinish(i) ==
    /\ objects[i].pc = "run"
    /\ ~LoopCondition(objects[i])
    /\ finished' = Append(finished, [key |-> objects[i].session_id,
                                     status |-> objects[i].status, obj |-> i])
    /\ IF Registered(sessions, objects[i].session_id)
       THEN /\ sessions' = Unregister(sessions, objects[i].session_id)
            /\ objects' = [objects EXCEPT ![i].pc = "finished"]
       ELSE /\ sessions' = sessions
            /\ objects' = [objects EXCEPT ![i].pc = "crashed"]
    /\ UNCHANGED <<transport, sent, aside>>

ServerNext ==
    \/ \E t \in Transports, raw \in ServerRaws, source \in SourceAddresses :
          \E wp \in {raw, <<>>} : OnDataReceived(t, raw, wp, source)
    \/ \E t \in Transports : PutEvent(t)
    \/ \E t \in Transports, seed \in ServerSeeds : CreateSession(t, seed)
    \/ \E t \in Transports : PutFirstEvent(t)
    \/ \E i \in DOMAIN objects : ThreadHandleEvent(i)
    \/ \E i \in DOMAIN objects, outcome \in SendOutcomes : ThreadSendData(i, outcome)
    \/ \E i \in DOMAIN objects, outcome \in SendOutcomes : ThreadSendNack(i, outcome)
    \/ \E i \in DOMAIN objects : ThreadNackLoop(i)
    \/ \E i \in DOMAIN objects : ThreadTimeout(i)
    \/ \E i \in DOMAIN objects : OnSessionFinish(i)

ServerInit == Init /\ session = NewSession(0)

ServerSpec == ServerInit /\ [][ServerNext]_vars

(***************************************************************************)
(* START frames with initialisation vectors at the ends of the 128-bit     *)
(* range: zero, 2^16 - 1 (the sum carries out of the two low bytes) and    *)
(* 2^128 - 1 (the sum wraps).                                              *)
(***************************************************************************)
IcbIVs ==
    {ZeroIV,
     [i \in 1..16 |-> IF i <= 2 THEN 255 ELSE 0],
     [i \in 1..16 |-> 255]}

IcbFrames ==
    {Msg(START, SECURED, iv, "uidS", 0, ServerOrigin) : iv \in IcbIVs}
    \cup {Msg(START, SECURED, ZeroIV, "uidX", 0, ServerOrigin)}

IcbNext ==
    \/ \E msg \in IcbFrames : Deliver(msg)
    \/ SessionStep
    \/ TimerStep

IcbSpec == Init /\ [][IcbNext]_vars

(***************************************************************************)
(* A transport whose sends either succeed or raise TimeoutError: every     *)
(* send of the session that fails is then one that raised.                 *)
(***************************************************************************)
TimeoutOutcomes == {"GW_RES_OK", "TimeoutError"}

TimeoutNext ==
    \/ \E msg \in Frames : Deliver(msg)
    \/ TimerTick
    \/ TimerFire
    \/ HandleEvent
    \/ \E outcome \in TimeoutOutcomes : SendData(outcome)
    \/ \E outcome \in TimeoutOutcomes : SendNack(outcome)
    \/ NackLoop
    \/ Finish

TimeoutSpec == Init /\ [][TimeoutNext]_vars

(***************************************************************************)
(* Two transport threads.  Nothing in provisioning_server.py serialises    *)
(* on_data_received: when the transport library delivers two uplink        *)
(* packets at once, each call runs in its own thread, and the threads      *)
(* interleave at every access to the session table.  The packets are       *)
(* frames of one key, and each thread has one call left to make.           *)
(***************************************************************************)
RaceTransports == {"t1", "t2"}

RaceRaws ==
    {Payload(StartFrame(ServerAddress, ServerSid, SECURED, ZeroIV, UidBytes.uidS)),
     Payload(StartFrame(ServerAddress, ServerSid, SECURED, ZeroIV, UidBytes.uidX)),
     Payload(DataAckFrame(ServerAddress, ServerSid))}

RaceInit ==
    /\ session = NewSession(0)
    /\ sent = <<>>
    /\ delivered = 0
    /\ sessions = <<>>
    /\ objects = <<>>
    /\ transport = [t \in RaceTransports |->
                       [TransportIdle EXCEPT !.calls = MaxCalls - 1]]
    /\ finished = <<>>
    /\ codec = CodecIdle
    /\ config = ConfigIdle

RaceNext ==
    \/ \E t \in RaceTransports, raw \in RaceRaws :
          OnDataReceived(t, raw, raw, session_id[1])
    \/ \E t \in RaceTransports : PutEvent(t)
    \/ \E t \in RaceTransports, seed \in ServerSeeds : CreateSession(t, seed)
    \/ \E t \in RaceTransports : PutFirstEvent(t)
    \/ \E i \in DOMAIN objects : ThreadHandleEvent(i)
    \/ \E i \in DOMAIN objects, outcome \in SendOutcomes : ThreadSendData(i, outcome)
    \/ \E i \in DOMAIN objects, outcome \in SendOutcomes : ThreadSendNack(i, outcome)
    \/ \E i \in DOMAIN objects : ThreadNackLoop(i)
    \/ \E i \in DOMAIN objects : ThreadTimeout(i)
    \/ \E i \in DOMAIN objects : OnSessionFinish(i)

RaceSpec == RaceInit /\ [][RaceNext]_vars

(***************************************************************************)
(* The codec on its own: a frame is serialised by `payload`, the bytes are *)
(* handed to ProvisioningMessageFactory.map as the data_payload of an      *)
(* uplink packet.  message.payload, which DATA decoding reads, belongs to  *)
(* the transport library: it is the same bytes, or something else.         *)
(***************************************************************************)
Encode(f) ==
    /\ codec.pc = "idle"
    /\ codec' = [codec EXCEPT !.pc = "encoded", !.frame = f, !.raw = Payload(f)]
    /\ UNCHANGED <<session, sent, delivered, server, config>>

Decode(wp) ==
    /\ codec.pc = "encoded"
    /\ codec' = [codec EXCEPT !.pc = "decoded", !.result = Map(codec.raw, wp)]
    /\ UNCHANGED <<session, sent, delivered, server, config>>

CodecNext ==
    \/ \E f \in CodecFrames : Encode(f)
    \/ \E wp \in {codec.raw, <<>>} : Decode(wp)

CodecSpec == ServerInit /\ [][CodecNext]_vars

(***************************************************************************)
(* The configuration on its own: a node description is loaded and its      *)
(* bundle is asked for, or an address is given to a NodeV1.                *)
(***************************************************************************)
LoadConfig(network, node_cfg) ==
    /\ config.pc = "idle"
    /\ config' = [config EXCEPT !.pc = "loaded", !.network = network,
                                !.node_cfg = node_cfg,
                                !.loaded = ProvisioningData(network, node_cfg)]
    /\ UNCHANGED <<session, sent, delivered, server, codec>>

GetCbor ==
    /\ config.pc = "loaded"
    /\ config.loaded.exc = "none"
    /\ config' = [config EXCEPT !.pc = "bundle",
                                !.bundle = self_dic(config.loaded.entry[1])]
    /\ UNCHANGED <<session, sent, delivered, server, codec>>

ValidateNodeId(node_id) ==
    /\ config.pc = "idle"
    /\ config' = [config EXCEPT !.pc = "validated", !.node_id = node_id,
                                !.node = check_node_id(node_id)]
    /\ UNCHANGED <<session, sent, delivered, server, codec>>

ConfigNext ==
    \/ \E network \in NetworkCfgs, node_cfg \in NodeCfgs :
          LoadConfig(network, node_cfg)
    \/ GetCbor
    \/ \E node_id \in NodeIds : ValidateNodeId(node_id)

ConfigSpec == ServerInit /\ [][ConfigNext]_vars

(***************************************************************************)
(* Vocabulary of the properties.                                           *)
(***************************************************************************)
\* The configuration, spelled out: the UIDs it holds and their methods.
KnownUid(msg) == msg.uid = "uidS" \/ msg.uid = "uidU"
MethodMatches(msg) ==
    \/ msg.uid = "uidS" /\ msg.method = SECURED
    \/ msg.uid = "uidU" /\ msg.method = UNSECURED

Ongoing == session.status = "ONGOING"

\* This step is the session thread dequeuing the head of its queue.
Handles ==
    /\ session.pc = "run"
    /\ Ongoing
    /\ session.event_q # <<>>
    /\ session'.event_q = Tail(session.event_q)

HandlesFrame(t) ==
    /\ Handles
    /\ Head(session.event_q).type = "packet_rxd"
    /\ Head(session.event_q).msg.msg_type = t

\* This step is one send_func invocation; Sent is that invocation.
Sends == Len(sent') = Len(sent) + 1
Sent == sent'[Len(sent')]

\* The START being handled when the session is inside _process_start.
InStartOf(caller) ==
    session.pc \in {"send_data", "send_nack"} /\ session.caller = caller

SentData == {i \in 1..Len(sent) : IsData(sent[i].payload)}
SentOk == {i \in 1..Len(sent) : sent[i].res = "GW_RES_OK"}

\* The handler returned to run() with a terminal status (the loop ends
\* there), or finish_cb was already called.
Terminated == session.pc \in {"run", "finished"} /\ ~Ongoing

(***************************************************************************)
(* C1.  When a START with an unknown UID (or a mismatching method) is      *)
(* handled and every NACK send fails until the retry budget is spent, the  *)
(* session reaches status ERROR_SENDING_NACK, its handler returns, run()'s *)
(* loop ends and finish_cb is called: whenever the status is               *)
(* ERROR_SENDING_NACK the session thread is back in run() or has finished. *)
(***************************************************************************)
C1_NackExhaustionTerminates ==
    session.status = "ERROR_SENDING_NACK" => session.pc \in {"run", "finished"}

(***************************************************************************)
(* C2.  Happy path.  A send made while a session in IDLE handles a START   *)
(* for a UID configured with the SECURED method, and that returns          *)
(* GW_RES_OK, is a DATA frame with key_index = 1 and takes the session to  *)
(* WAIT_RESPONSE; a DATA_ACK handled there makes the status SUCCESS and    *)
(* leaves no timer armed.                                                  *)
(***************************************************************************)
C2_Step ==
    /\ ( /\ InStartOf("idle")
         /\ session.msg.uid = "uidS" /\ session.msg.method = SECURED
         /\ Sends /\ Sent.res = "GW_RES_OK" )
       => /\ IsData(Sent.payload)
          /\ KeyIndexOf(Sent.payload) = 1
          /\ session'.state = "WAIT_RESPONSE"
          /\ session'.status = "ONGOING"
          /\ session'.pc = "run"
    /\ (session.state = "WAIT_RESPONSE" /\ HandlesFrame(DATA_ACK))
       => /\ session'.status = "SUCCESS"
          /\ session'.timer.obj # "armed"
          /\ session'.pc = "run"

C2_HappyPath == [][C2_Step]_vars

C2_Witness ==
    /\ session.status = "SUCCESS"
    /\ Len(sent) = 1
    /\ sent[1].res = "GW_RES_OK"
    /\ IsData(sent[1].payload) /\ KeyIndexOf(sent[1].payload) = 1
    /\ session.timer.obj = "none"

(***************************************************************************)
(* C3.  A START handled in IDLE whose UID is not configured: every send    *)
(* made for it is a NACK with reason 0, never a DATA frame; when a send    *)
(* returns GW_RES_OK it is the only NACK that went out, the handler ends   *)
(* and the terminal status is ERROR_NOT_AUTHORIZED.                        *)
(***************************************************************************)
C3_Step ==
    ( /\ InStartOf("idle")
      /\ ~KnownUid(session.msg)
      /\ Sends )
    => /\ IsNack(Sent.payload)
       /\ Sent.payload.hdr[7] = 0
       /\ SentData = {}
       /\ Sent.res = "GW_RES_OK"
          => /\ \A i \in 1..Len(sent) : sent[i].res # "GW_RES_OK"
             /\ session'.status = "ERROR_NOT_AUTHORIZED"
             /\ session'.pc = "run"
             /\ session'.state = "IDLE"

C3_UnknownUidNack == [][C3_Step]_vars

C3_Witness ==
    /\ Terminated
    /\ session.status = "ERROR_NOT_AUTHORIZED"
    /\ session.state = "IDLE"
    /\ Len(sent) = 1
    /\ sent[1].res = "GW_RES_OK"
    /\ sent[1].payload.hdr = <<4, 1, 2, 3, 4, 66, 0>>

(***************************************************************************)
(* C4.  A START whose UID is configured with another method than the       *)
(* START's: handling it sets the status to ERROR_NOT_AUTHORIZED and every  *)
(* send made for it is a NACK with reason 1, never a DATA frame; when a    *)
(* send returns GW_RES_OK the handler ends with the terminal status        *)
(* ERROR_NOT_AUTHORIZED (ERROR_SENDING_NACK is the status only when every  *)
(* attempt failed).                                                        *)
(***************************************************************************)
C4_Mismatch(msg) == KnownUid(msg) /\ ~MethodMatches(msg)

C4_Step ==
    /\ (HandlesFrame(START) /\ C4_Mismatch(Head(session.event_q).msg))
       => /\ session'.status = "ERROR_NOT_AUTHORIZED"
          /\ session'.pc = "send_nack"
          /\ session'.pkt.hdr = <<4, 1, 2, 3, 4, 66, 1>>
    /\ ( /\ session.pc \in {"send_data", "send_nack"}
         /\ C4_Mismatch(session.msg)
         /\ Sends )
       => /\ IsNack(Sent.payload)
          /\ Sent.payload.hdr[7] = 1
          /\ session.status = "ERROR_NOT_AUTHORIZED"
          /\ IF Sent.res = "GW_RES_OK"
             THEN session'.status = "ERROR_NOT_AUTHORIZED" /\ session'.pc = "run"
             ELSE \/ session'.status = "ERROR_NOT_AUTHORIZED"
                     /\ session'.pc = "send_nack"
                  \/ session'.status = "ERROR_SENDING_NACK"
                     /\ session'.retry < 0

C4_MethodMismatchNack == [][C4_Step]_vars

C4_Witness ==
    /\ Terminated
    /\ session.status = "ERROR_NOT_AUTHORIZED"
    /\ sent # <<>>
    /\ sent[Len(sent)].res = "GW_RES_OK"
    /\ sent[Len(sent)].payload.hdr = <<4, 1, 2, 3, 4, 66, 1>>

(***************************************************************************)
(* C5.  Timeout.  From any moment at which the session is in               *)
(* WAIT_RESPONSE (DATA was sent with GW_RES_OK), still ONGOING, with no    *)
(* frame waiting in its queue, either a further frame is delivered or the  *)
(* session reaches the status ERROR_NO_RESPONSE.                           *)
(***************************************************************************)
NoFrameQueued ==
    \A i \in 1..Len(session.event_q) : session.event_q[i].type # "packet_rxd"

C5_Waiting(n) ==
    /\ session.state = "WAIT_RESPONSE"
    /\ Ongoing
    /\ session.pc = "run"
    /\ SentData \cap SentOk # {}
    /\ NoFrameQueued
    /\ delivered = n

C5_TimeoutLiveness ==
    \A n \in 0..MaxDeliver :
        C5_Waiting(n) ~> (session.status = "ERROR_NO_RESPONSE" \/ delivered > n)

C5_Witness ==
    /\ session.status = "ERROR_NO_RESPONSE"
    /\ session.state = "WAIT_RESPONSE"
    /\ delivered = 1
    /\ SentData \cap SentOk # {}

(***************************************************************************)
(* C6.  As claimed: whatever START is handled in WAIT_RESPONSE, a send     *)
(* made for it that returns GW_RES_OK is a DATA retransmission and leaves  *)
(* the session in WAIT_RESPONSE with status ONGOING.                       *)
(***************************************************************************)
C6_OriginalStep ==
    (InStartOf("wait") /\ Sends /\ Sent.res = "GW_RES_OK")
    => /\ IsData(Sent.payload)
       /\ session'.state = "WAIT_RESPONSE"
       /\ session'.status = "ONGOING"

C6_AmendedStep ==
    (InStartOf("wait") /\ Sends)
    => IF KnownUid(session.msg) /\ MethodMatches(session.msg)
       THEN /\ IsData(Sent.payload)
            /\ Sent.res = "GW_RES_OK"
               => /\ session'.state = "WAIT_RESPONSE"
                  /\ session'.status = "ONGOING"
                  /\ session'.pc = "run"
       ELSE /\ IsNack(Sent.payload)
            /\ session'.state = "WAIT_RESPONSE"
            /\ session'.status \in {"ERROR_NOT_AUTHORIZED", "ERROR_SENDING_NACK"}

PreviousDataCounter ==
    CounterOf(sent[CHOOSE i \in SentData : \A j \in SentData : j <= i].payload)

\* This step builds the DATA frame answering a START handled in
\* WAIT_RESPONSE.
Reemits ==
    /\ session.state = "WAIT_RESPONSE"
    /\ HandlesFrame(START)
    /\ session'.pc = "send_data"

TimerRestarted ==
    (InStartOf("wait") /\ session.pc = "send_data" /\ Sends
        /\ Sent.res = "GW_RES_OK")
    => session'.timer = [obj |-> "armed", left |-> TimeoutTicks]

C7_OriginalStep ==
    /\ Reemits => CounterOf(session'.pkt) = PreviousDataCounter + 1
    /\ TimerRestarted

C7_DuplicateStartCounterPlusOne == [][C7_OriginalStep]_vars

(***************************************************************************)
(* C7, amended.  The DATA frame built for a START handled in WAIT_RESPONSE *)
(* carries a header counter exactly one greater than that of the previous  *)
(* DATA emission when the START's method is SECURED, and the same counter  *)
(* when it is UNSECURED (nothing is encrypted, the counter is not          *)
(* incremented); once it is sent the timer is armed anew for a full        *)
(* timeout period.                                                         *)
(***************************************************************************)
C7_AmendedStep ==
    /\ Reemits =>
         CounterOf(session'.pkt) =
            IF Head(session.event_q).msg.method = UNSECURED
            THEN PreviousDataCounter
            ELSE PreviousDataCounter + 1
    /\ TimerRestarted

C7_DuplicateStartCounter == [][C7_AmendedStep]_vars

C7_Witness ==
    /\ session.state = "WAIT_RESPONSE"
    /\ Ongoing
    /\ session.pc = "run"
    /\ Len(sent) = 2
    /\ SentData = {1, 2}
    /\ SentOk = {1, 2}
    /\ KeyIndexOf(sent[2].payload) = 1
    /\ CounterOf(sent[2].payload) = CounterOf(sent[1].payload) + 1
    /\ session.timer = [obj |-> "armed", left |-> TimeoutTicks]

(***************************************************************************)
(* C8.  DATA send exhaustion.  Every DATA send that does not return        *)
(* GW_RES_OK decrements retry; while retry is still >= 0 the same frame is *)
(* sent again; otherwise the handler ends with status ERROR_SENDING_DATA   *)
(* without the state having changed.  A session that fails so on its first *)
(* START has made DefaultRetry + 1 attempts, all of the same DATA frame,   *)
(* is still in IDLE, and goes on to finish.                                *)
(***************************************************************************)
C8_Step ==
    (session.pc = "send_data" /\ Sends /\ Sent.res # "GW_RES_OK")
    => /\ IsData(Sent.payload)
       /\ session'.retry = session.retry - 1
       /\ session'.state = session.state
       /\ IF session'.retry >= 0
          THEN /\ session'.pc = "send_data"
               /\ session'.pkt = session.pkt
               /\ session'.status = "ONGOING"
          ELSE /\ session'.pc = "run"
               /\ session'.status = "ERROR_SENDING_DATA"

C8_Exhausted ==
    (session.status = "ERROR_SENDING_DATA" /\ session.state = "IDLE")
    => /\ Terminated
       /\ Len(sent) = DefaultRetry + 1
       /\ \A i \in 1..Len(sent) :
            /\ sent[i].res # "GW_RES_OK"
            /\ IsData(sent[i].payload)
            /\ sent[i].payload = sent[1].payload

C8_DataSendExhaustion ==
    /\ [][C8_Step]_vars
    /\ [](C8_Exhausted)
    /\ (session.status = "ERROR_SENDING_DATA") ~> (session.pc = "finished")

C8_Witness ==
    /\ session.status = "ERROR_SENDING_DATA"
    /\ session.state = "IDLE"
    /\ session.pc = "finished"
    /\ session.retry = -1
    /\ Len(sent) = 2

(***************************************************************************)
(* C9.  Each encryption (a START served with a method other than           *)
(* UNSECURED) increments the session counter by exactly 1 and nothing else *)
(* changes the counter; the DATA frame then built carries that             *)
(* post-increment value in its header, the same value lies in the          *)
(* authenticated octets and in the initial counter block (the IV being 0), *)
(* and every DATA frame handed to the transport carries the session        *)
(* counter's current value.                                                *)
(***************************************************************************)
Encrypts ==
    /\ HandlesFrame(START)
    /\ KnownUid(Head(session.event_q).msg)
    /\ MethodMatches(Head(session.event_q).msg)
    /\ Head(session.event_q).msg.method # UNSECURED

C9_Step ==
    /\ Encrypts => session'.counter = session.counter + 1
    /\ session'.counter # session.counter => Encrypts
    /\ (Encrypts /\ session'.pc = "send_data")
       => /\ CounterOf(session'.pkt) = session.counter + 1
          /\ CounterOf(session'.pkt.data.mic.msg) = session.counter + 1
          /\ FromLE16(Slice(session'.pkt.data.icb, 0, 2)) = session.counter + 1
          /\ Len(session'.pkt.data.icb) = 16
    /\ (Sends /\ IsData(Sent.payload))
       => CounterOf(Sent.payload) = session.counter

C9_CounterIncrement == [][C9_Step]_vars

C9_Witness ==
    /\ Len(sent) = 1
    /\ IsData(sent[1].payload)
    /\ KeyIndexOf(sent[1].payload) = 1
    /\ CounterOf(sent[1].payload) = 1
    /\ session.counter = 1

(***************************************************************************)
(* C10.  The session counter is a 16-bit value: 0 <= counter <= 65535 in   *)
(* every reachable state, and incrementing it past 65535 wraps; encoding   *)
(* the DATA header never raises and never ends the session thread.         *)
(***************************************************************************)
C10_CounterIs16Bit ==
    /\ session.counter >= 0
    /\ session.counter <= 65535
    /\ session.pc # "crashed"

(***************************************************************************)
(* C11.  Origin update.  The session's recorded tx_time never decreases.   *)
(* When a frame is handled, the gateway and sink of the session become     *)
(* those of that frame if it is the first frame the session handles (a     *)
(* session in IDLE has handled none) or if its tx_time is larger than the  *)
(* largest seen so far, and stay what they were otherwise (smaller or      *)
(* equal tx_time); they change at no other step, and every send goes to    *)
(* the gateway and sink so recorded.                                       *)
(***************************************************************************)
OriginOf(r) == <<r.gw_id, r.sink_id, r.tx_time>>

C11_Step ==
    /\ session'.tx_time >= session.tx_time
    /\ (Handles /\ Head(session.event_q).type = "packet_rxd"
          /\ (session.state = "IDLE" => Head(session.event_q).msg.msg_type = START))
       => LET m == Head(session.event_q).msg
          IN  IF session.state = "IDLE" \/ m.tx_time > session.tx_time
              THEN OriginOf(session') = OriginOf(m)
              ELSE OriginOf(session') = OriginOf(session)
    /\ ~Handles => OriginOf(session') = OriginOf(session)
    /\ Sends => Sent.gw_id = session.gw_id /\ Sent.sink_id = session.sink_id

C11_OriginFollowsLargestTxTime == [][C11_Step]_vars

(***************************************************************************)
(* C12.  UNSECURED path.  Every send made while handling a START with      *)
(* method 0 for the UID configured with method 0 is a DATA frame with      *)
(* key_index = 0 and no MIC whose data field is the CBOR bundle of that    *)
(* UID, byte for byte, behind the 9-byte header.                           *)
(***************************************************************************)
C12_Step ==
    ( /\ session.pc \in {"send_data", "send_nack"}
      /\ session.msg.uid = "uidU" /\ session.msg.method = UNSECURED
      /\ Sends )
    => /\ IsData(Sent.payload)
       /\ Len(Sent.payload.hdr) = 9
       /\ Slice(Sent.payload.hdr, 0, 7) = <<2, 1, 2, 3, 4, 66, 0>>
       /\ Sent.payload.mic = <<>>
       /\ Sent.payload.data = <<162, 0, 2>>

C12_UnsecuredPath == [][C12_Step]_vars

C12_Witness ==
    /\ Len(sent) = 1
    /\ sent[1].res = "GW_RES_OK"
    /\ IsData(sent[1].payload)
    /\ KeyIndexOf(sent[1].payload) = 0
    /\ sent[1].payload.data = <<162, 0, 2>>
    /\ session.state = "WAIT_RESPONSE"

(***************************************************************************)
(* C13.  Once the status of a session is no longer ONGOING no event is     *)
(* taken from its queue: events put there afterwards (a Timeout, a frame)  *)
(* stay in it.  Once the handler that made the status terminal has         *)
(* returned, the status does not change any more and nothing is sent.      *)
(***************************************************************************)
C13_Step ==
    /\ ~Ongoing
       => /\ Len(session'.event_q) >= Len(session.event_q)
          /\ SubSeq(session'.event_q, 1, Len(session.event_q)) = session.event_q
    /\ Terminated
       => /\ session'.status = session.status
          /\ sent' = sent
          /\ session'.pc \in {"run", "finished"}

C13_TerminalDequeuesNothing == [][C13_Step]_vars

\* The Timeout of the timer armed after the NACK of a START handled in
\* WAIT_RESPONSE waits in the queue of a session that has finished.
C13_Witness ==
    /\ session.pc = "finished"
    /\ session.status = "ERROR_NOT_AUTHORIZED"
    /\ session.state = "WAIT_RESPONSE"
    /\ session.timer.obj = "fired"
    /\ session.event_q = <<Timeout>>

(***************************************************************************)
(* C14.  Router dispatch.  For a decoded frame with key k: if k is in the  *)
(* session table at the lookup, the frame is put in the queue of the       *)
(* session registered under k and no session is created; otherwise exactly *)
(* one session is created, it is registered under k with its queue empty,  *)
(* and the frame is the first event put in its queue.                      *)
(***************************************************************************)
OthersUntouched(n) ==
    /\ Len(objects') = Len(objects)
    /\ \A j \in DOMAIN objects : j # n => objects'[j] = objects[j]

Enqueued(n, msg) ==
    /\ objects'[n].event_q = Append(objects[n].event_q, PacketReceived(msg))
    /\ OthersUntouched(n)

C14_Call(t) ==
    LET now  == transport[t]
        next == transport'[t]
    IN  /\ (now.pc = "idle" /\ next.pc # "idle")
           => /\ IF next.key \in DOMAIN sessions
                 THEN next.pc = "put" /\ next.obj = sessions[next.key]
                 ELSE next.pc = "create"
              /\ sessions' = sessions /\ objects' = objects
        /\ (now.pc = "put" /\ next.pc # "put")
           => /\ Enqueued(now.obj, now.msg)
              /\ sessions' = sessions
              /\ next.pc = "idle" /\ next.outcome = "returned"
        /\ (now.pc = "create" /\ next.pc # "create")
           => /\ Len(objects') = Len(objects) + 1
              /\ \A j \in DOMAIN objects : objects'[j] = objects[j]
              /\ objects'[Len(objects')].session_id = now.key
              /\ objects'[Len(objects')].event_q = <<>>
              /\ DOMAIN sessions' = DOMAIN sessions \cup {now.key}
              /\ sessions'[now.key] = Len(objects')
              /\ \A k \in DOMAIN sessions : sessions'[k] = sessions[k]
              /\ next.pc = "put_new"
        /\ (now.pc = "put_new" /\ next.pc # "put_new")
           => /\ now.key \in DOMAIN sessions
              /\ objects[sessions[now.key]].event_q = <<>>
              /\ Enqueued(sessions[now.key], now.msg)
              /\ sessions' = sessions
              /\ next.pc = "idle" /\ next.outcome = "returned"

C14_Step == \A t \in Transports : C14_Call(t)

C14_RouterDispatch == [][C14_Step]_vars

\* Two frames with the same key were received: one session exists and both
\* frames are in its queue.
C14_Witness ==
    /\ transport["t1"].calls = 2
    /\ transport["t1"].pc = "idle"
    /\ transport["t1"].outcome = "returned"
    /\ Len(objects) = 1
    /\ Len(objects[1].event_q) = 2
    /\ DOMAIN sessions = {objects[1].session_id}

(***************************************************************************)
(* C15.  Lifecycle.  A session whose status has left ONGOING goes on to    *)
(* call the finish callback: its thread is sending the NACK of the START   *)
(* it refused, or is back in run(), or has finished.  The callback is      *)
(* called at most once for a session, with the key and the final status of *)
(* that session, and once it has been called the session table holds no    *)
(* entry for the session.                                                  *)
(***************************************************************************)
FinishCalls(i) == {j \in 1..Len(finished) : finished[j].obj = i}

C15_Session(i) ==
    /\ objects[i].status # "ONGOING"
       => objects[i].pc \in {"send_nack", "run", "finished"}
    /\ Cardinality(FinishCalls(i)) <= 1
    /\ \A j \in FinishCalls(i) :
          /\ finished[j].key = objects[i].session_id
          /\ finished[j].status = objects[i].status
          /\ objects[i].pc = "finished"
          /\ \A k \in DOMAIN sessions : sessions[k] # i
    /\ objects[i].pc = "finished" => FinishCalls(i) # {}

C15_Lifecycle == \A i \in DOMAIN objects : C15_Session(i)

(***************************************************************************)
(* C16.  A packet that is not a frame (fewer bytes than the header, a      *)
(* message type that is none of the four, a START shorter than header,     *)
(* method, IV and one UID byte or with a method that is none of 0, 1, 3, a *)
(* NACK without reason byte or with a reason that is none of 0, 1) is      *)
(* dropped: the call is over at once and the session table, the sessions   *)
(* (queue, state, status, retry, counter), the send log and the finish     *)
(* callbacks are what they were.                                           *)
(***************************************************************************)
NotAFrame(raw) ==
    \/ Len(raw) < 6
    \/ raw[1] \notin {1, 2, 3, 4}
    \/ raw[1] = 1 /\ (Len(raw) < 24 \/ raw[7] \notin {0, 1, 3})
    \/ raw[1] = 4 /\ (Len(raw) < 7 \/ raw[7] \notin {0, 1})

C16_Step ==
    \A t \in Transports :
        ( /\ transport[t].pc = "idle"
          /\ transport'[t].calls = transport[t].calls + 1
          /\ NotAFrame(transport'[t].raw) )
        => /\ transport'[t].pc = "idle"
           /\ sessions' = sessions
           /\ objects' = objects
           /\ sent' = sent
           /\ finished' = finished

C17_DecodeErrorsSwallowed ==
    \A t \in Transports : transport[t].outcome \in {"none", "returned", "dropped"}

(***************************************************************************)
(* C18.  Codec round trip: decoding the bytes produced by encoding a       *)
(* validly shaped frame raises nothing and yields a frame with the same    *)
(* type, node_address, session_id and type-specific fields.                *)
(***************************************************************************)
C18_CodecRoundTrip ==
    codec.pc = "decoded"
    => /\ codec.result.exc = "none"
       /\ codec.result.frame = codec.frame

(***************************************************************************)
(* C19.  In IDLE, handling an event that is not a START frame (a DATA,     *)
(* DATA_ACK or NACK frame) makes the status ERROR_NOT_START at once,       *)
(* the handler returns and the loop of run() ends; nothing is sent, then   *)
(* or later.                                                               *)
(***************************************************************************)
C19_Step ==
    /\ ( /\ session.state = "IDLE"
         /\ Handles
         /\ Head(session.event_q).msg.msg_type # START )
       => /\ session'.status = "ERROR_NOT_START"
          /\ session'.state = "IDLE"
          /\ session'.pc = "run"
          /\ session'.timer.obj # "armed"
          /\ sent' = sent
    /\ session.status = "ERROR_NOT_START"
       => /\ sent = <<>> /\ sent' = <<>>
          /\ session'.status = "ERROR_NOT_START"
          /\ session'.pc \in {"run", "finished"}

C19_NotStartInIdle == [][C19_Step]_vars

C19_Witness ==
    /\ session.status = "ERROR_NOT_START"
    /\ session.state = "IDLE"
    /\ session.pc = "finished"
    /\ sent = <<>>
    /\ delivered = 1

(***************************************************************************)
(* C20.  In WAIT_RESPONSE, handling a NACK frame makes the status          *)
(* ERROR_NACK_RECEIVED at once with the timer cancelled, the handler       *)
(* returns and the loop of run() ends; nothing is sent and no timer is     *)
(* armed, then or later.                                                   *)
(***************************************************************************)
C20_Step ==
    /\ (session.state = "WAIT_RESPONSE" /\ HandlesFrame(NACK))
       => /\ session'.status = "ERROR_NACK_RECEIVED"
          /\ session'.timer = NoTimer
          /\ session'.pc = "run"
          /\ sent' = sent
    /\ session.status = "ERROR_NACK_RECEIVED"
       => /\ session.timer.obj # "armed" /\ session'.timer.obj # "armed"
          /\ sent' = sent
          /\ session'.status = "ERROR_NACK_RECEIVED"
          /\ session'.pc \in {"run", "finished"}

C20_NackInWaitResponse == [][C20_Step]_vars

C20_Witness ==
    /\ session.status = "ERROR_NACK_RECEIVED"
    /\ session.state = "WAIT_RESPONSE"
    /\ session.pc = "finished"
    /\ session.timer = NoTimer
    /\ Len(sent) = 1

(***************************************************************************)
(* C21.  The provisioning bundle of a UID is a map that always holds key 0 *)
(* (the encryption key) and key 1 (the authentication key), holds key 2,   *)
(* 3, 4, 5 exactly when a network address, a network channel, a node_id, a *)
(* role is configured, holds every user specific item under its own index  *)
(* in 128..255, and holds no other key: a user specific index never        *)
(* collides with 0..5.                                                     *)
(***************************************************************************)
C21_BundleKeys ==
    config.pc = "bundle" =>
        LET dic == config.bundle
            network == config.network
            node_cfg == config.node_cfg
            user == IF "user_specific" \in DOMAIN node_cfg
                    THEN node_cfg["user_specific"]
                    ELSE <<>>
        IN  /\ \A k \in DOMAIN user : k \in 128..255
            /\ 0 \in DOMAIN dic /\ dic[0] = network["encryption_key"]
            /\ 1 \in DOMAIN dic /\ dic[1] = network["authentication_key"]
            /\ 2 \in DOMAIN dic <=> "address" \in DOMAIN network
            /\ 3 \in DOMAIN dic <=> "channel" \in DOMAIN network
            /\ 4 \in DOMAIN dic <=> "node_id" \in DOMAIN node_cfg
            /\ 5 \in DOMAIN dic <=> "node_role" \in DOMAIN node_cfg
            /\ 2 \in DOMAIN dic => dic[2] = network["address"]
            /\ 3 \in DOMAIN dic => dic[3] = network["channel"]
            /\ 4 \in DOMAIN dic => dic[4] = node_cfg["node_id"]
            /\ 5 \in DOMAIN dic => dic[5] = <<node_cfg["node_role"]>>
            /\ \A k \in DOMAIN user : k \in DOMAIN dic /\ dic[k] = user[k]
            /\ \A k \in DOMAIN dic : k \in 0..5 \/ k \in DOMAIN user

\* A bundle was built for a node with an address, a node_id and two user
\* specific items, and without channel and role.
C21_Witness ==
    /\ config.pc = "bundle"
    /\ DOMAIN config.bundle = {0, 1, 2, 4, 128, 200}

(***************************************************************************)
(* C22.  NodeV1 accepts a node_id exactly when it lies in                  *)
(* [0x00000001, 0x7FFFFFFF] or in [0x81000000, 0xFFFFFFFD]: 0, the values  *)
(* 0x80000000..0x80FFFFFF, 0xFFFFFFFE, 0xFFFFFFFF and every other integer  *)
(* are rejected with a validation error and no node record is produced.    *)
(* The ranges are spelled out on the 16-bit halves of the value.           *)
(***************************************************************************)
C22_Allowed(node_id) ==
    LET high == node_id[2]
        low == node_id[3]
    IN  /\ node_id[1] = 0
        /\ \/ high \in 0..32767 /\ ~(high = 0 /\ low = 0)
           \/ high \in 33024..65534
           \/ high = 65535 /\ low \in 0..65533

C22_NodeIdRanges ==
    config.pc = "validated" =>
        IF C22_Allowed(config.node_id)
        THEN config.node = [exc |-> "none", node_id |-> <<config.node_id>>]
        ELSE config.node = [exc |-> "ValueError", node_id |-> None]

\* 0x80FFFFFF, the last reserved value, was rejected.
C22_Witness ==
    /\ config.pc = "validated"
    /\ config.node_id = <<0, 33023, 65535>>
    /\ config.node.exc = "ValueError"

(***************************************************************************)
(* C23.  A timeout timer is armed only on entering or re-entering          *)
(* WAIT_RESPONSE, and once a handler that made the status terminal has     *)
(* completed no timer is left armed, also when the status became terminal  *)
(* while a START was handled in WAIT_RESPONSE (sends exhausted, or NACK    *)
(* path).                                                                  *)
(***************************************************************************)
\* This step arms the timer, anew or again.
C23_Arms ==
    /\ session'.timer.obj = "armed"
    /\ session.timer.obj # "armed" \/ session'.timer.left > session.timer.left

\* This step is the end of a handler: the thread is back in run().
C23_HandlerCompletes == (Handles \/ Sends) /\ session'.pc = "run"

C23_Step ==
    /\ C23_Arms => session'.state = "WAIT_RESPONSE"
    /\ C23_HandlerCompletes /\ session'.status # "ONGOING" =>
           session'.timer.obj # "armed"

C23_NoTimerAfterTerminal == [][C23_Step]_vars

(***************************************************************************)
(* C24.  The mutations of the session table are serialised: whatever the   *)
(* interleaving of concurrent on_data_received calls and finish callbacks, *)
(* two frames for the same unseen key create exactly one session, and      *)
(* every session created stays reachable from the table under its key      *)
(* until it finishes: no session is orphaned or overwritten.               *)
(***************************************************************************)
\* Session object i has not finished: its thread has not left run().
C24_Live(i) == objects[i].pc \notin {"finished", "crashed"}

C24_Reachable(i) ==
    /\ Registered(sessions, objects[i].session_id)
    /\ sessions[objects[i].session_id] = i

C24_NoOrphanSession ==
    /\ \A i \in DOMAIN objects : C24_Live(i) => C24_Reachable(i)
    /\ \A i, j \in DOMAIN objects :
          C24_Live(i) /\ C24_Live(j) /\ objects[i].session_id = objects[j].session_id
              => i = j

(***************************************************************************)
(* C25.  The retry budget belongs to the session and is never reset: retry *)
(* never increases during the life of the session, every send that does    *)
(* not return GW_RES_OK takes one unit from it whichever START it serves,   *)
(* so that the failures of the first DATA emission are missing from the    *)
(* later ones, and the sends of one session that did not return GW_RES_OK  *)
(* are never more than the initial retry value plus one.                   *)
(***************************************************************************)
C25_Failed == {i \in 1..Len(sent) : sent[i].res # "GW_RES_OK"}

C25_Step ==
    /\ session'.retry <= session.retry
    /\ Sends /\ Sent.res # "GW_RES_OK" => session'.retry = session.retry - 1
    /\ session.retry <= DefaultRetry - Cardinality(C25_Failed)
    /\ Cardinality(C25_Failed) <= DefaultRetry + 1

C25_RetryBudget == [][C25_Step]_vars

\* The first START lost one attempt before its DATA went out; the duplicate
\* START had a single attempt left and the session ended when it failed.
C25_Witness ==
    /\ Len(sent) = 3
    /\ sent[1].res # "GW_RES_OK"
    /\ sent[2].res = "GW_RES_OK"
    /\ sent[3].res # "GW_RES_OK"
    /\ \A i \in 1..3 : IsData(sent[i].payload)
    /\ session.state = "WAIT_RESPONSE"
    /\ session.status = "ERROR_SENDING_DATA"
    /\ session.retry = -1

(***************************************************************************)
(* C26.  The events of a session are handled in the order in which they    *)
(* were put in its queue and one at a time: an event leaves the queue only *)
(* from its head and only when the thread is in run() with no handler in   *)
(* progress, so that a retransmission triggered by one event (all its      *)
(* sends) is over before the next event is dequeued.                       *)
(***************************************************************************)
C26_Step ==
    LET q  == session.event_q
        q2 == session'.event_q
    IN  /\ \/ q2 = q
           \/ Len(q2) = Len(q) + 1 /\ SubSeq(q2, 1, Len(q)) = q
           \/ q # <<>> /\ q2 = Tail(q)
        /\ Len(q2) < Len(q) =>
              /\ session.pc = "run"
              /\ Ongoing
              /\ session'.pc \in {"send_data", "send_nack"} =>
                     session'.msg = Head(q).msg
              /\ Head(q).type = "timeout" /\ session.state = "WAIT_RESPONSE" =>
                     session'.status = "ERROR_NO_RESPONSE"
        /\ session.pc \in {"send_data", "send_nack", "nack_loop"} =>
              SubSeq(q2, 1, Len(q)) = q

C26_FifoOneAtATime == [][C26_Step]_vars

\* A duplicate START is being served, one attempt has failed and the DATA
\* is about to be sent again, while a Timeout waits in the queue.
C26_Witness ==
    /\ session.pc = "send_data"
    /\ session.caller = "wait"
    /\ session.retry < DefaultRetry
    /\ session.event_q = <<Timeout>>

(***************************************************************************)
(* C27.  A TimeoutError raised by the transport's send is turned into a    *)
(* failure result: it is handled like any other result that is not         *)
(* GW_RES_OK, takes one unit of the retry budget, and never leaves the     *)
(* handler.  Stated over a transport whose only failure is TimeoutError.   *)
(***************************************************************************)
C27_Step ==
    Sends /\ Sent.res # "GW_RES_OK" =>
        /\ Sent.res = "GW_RES_INTERNAL_ERROR"
        /\ session'.retry = session.retry - 1
        /\ session'.pc \in {"send_data", "send_nack", "nack_loop", "run"}
        /\ session'.retry >= 0 =>
               /\ session'.pc = session.pc
               /\ session'.pkt = session.pkt
               /\ session'.status = session.status
        /\ session'.retry < 0 /\ session.pc = "send_data" =>
               /\ session'.pc = "run"
               /\ session'.status = "ERROR_SENDING_DATA"
        /\ session'.retry < 0 /\ session.pc = "send_nack" =>
               session'.status = "ERROR_SENDING_NACK"

C27_TimeoutErrorIsAFailure == [][C27_Step]_vars

\* Every send of the session raised TimeoutError: the budget is spent and
\* the session thread ended in the ordinary way with ERROR_SENDING_DATA.
C27_Witness ==
    /\ Len(sent) = DefaultRetry + 1
    /\ \A i \in 1..Len(sent) : sent[i].res = "GW_RES_INTERNAL_ERROR"
    /\ session.status = "ERROR_SENDING_DATA"
    /\ session.pc = "finished"

(***************************************************************************)
(* C28.  The initial counter block of a SECURED DATA emission is           *)
(* (counter + IV read as an unsigned little-endian 128-bit integer)        *)
(* mod 2^128, with the counter as it is after its increment for that       *)
(* emission; the sum wraps (IV = 2^128 - 1 and counter c give c - 1), and   *)
(* the block is always 16 bytes, little-endian.  The sum is checked on the *)
(* three low bytes and on the carry into the thirteen high ones.           *)
(***************************************************************************)
C28_Low(bytes) == bytes[1] + 256 * bytes[2] + 65536 * bytes[3]

C28_High(bytes) == SubSeq(bytes, 4, 16)

C28_InitialCounterBlock ==
    session.pc = "send_data" /\ session.msg.method = SECURED =>
        LET iv  == session.msg.iv
            c   == CounterOf(session.pkt)
            icb == session.pkt.data.icb
            sum == C28_Low(iv) + c
        IN  /\ c = session.counter
            /\ Len(icb) = 16
            /\ \A i \in 1..16 : icb[i] \in 0..255
            /\ C28_Low(icb) = sum % Pow2(24)
            /\ sum < Pow2(24) => C28_High(icb) = C28_High(iv)
            /\ sum >= Pow2(24) /\ C28_High(iv) = [i \in 1..13 |-> 255] =>
                   C28_High(icb) = [i \in 1..13 |-> 0]
            /\ iv = [i \in 1..16 |-> 255] =>
                   icb = LE16(c - 1) \o [i \in 1..14 |-> 0]

\* A DATA frame is ready whose counter block wrapped: the IV is 2^128 - 1,
\* the counter is 1 after its increment, and the block is zero.
C28_Witness ==
    /\ session.pc = "send_data"
    /\ session.msg.iv = [i \in 1..16 |-> 255]
    /\ session.counter = 1
    /\ session.pkt.data.icb = ZeroIV

(***************************************************************************)
(* C29.  Every frame a session sends goes out on the response endpoint     *)
(* pair that was resolved from the request pair when the session was       *)
(* created, with qos = 1 and with the source_address of the session key as *)
(* destination; none of these changes from one send of the session to the  *)
(* next.                                                                   *)
(***************************************************************************)
\* The response pair of the request pair on which the node of a key sends.
C29_ResponsePair(key) == IF key[1] = 5 THEN <<255, 246>> ELSE <<254, 247>>

C29_Step ==
    /\ \A i \in DOMAIN objects :
          /\ objects'[i].resp_ep = objects[i].resp_ep
          /\ objects'[i].session_id = objects[i].session_id
    /\ \A i \in DOMAIN objects' :
          objects'[i].resp_ep = C29_ResponsePair(objects'[i].session_id)
    /\ Sends =>
          \E i \in DOMAIN objects :
              /\ objects[i].pc \in {"send_data", "send_nack"}
              /\ objects'[i] # objects[i]
              /\ Sent.dest = objects[i].session_id[1]
              /\ <<Sent.src_ep, Sent.dst_ep>> = C29_ResponsePair(objects[i].session_id)
              /\ Sent.qos = 1

C29_SendAddressing == [][C29_Step]_vars

\* Two sessions created from packets of the two request pairs have each
\* sent a frame, each on its own response pair.
C29_Witness ==
    \E i, j \in 1..Len(sent) :
        /\ sent[i].dest = 5 /\ sent[i].src_ep = 255 /\ sent[i].dst_ep = 246
        /\ sent[j].dest = 6 /\ sent[j].src_ep = 254 /\ sent[j].dst_ep = 247

(***************************************************************************)
(* C30.  A Timeout event ends a session with ERROR_NO_RESPONSE only if it  *)
(* was produced by the timer armed last: a Timeout put in the queue by a   *)
(* timer that a START retransmission has since replaced never ends the     *)
(* session.  When the Timeout is dequeued the timer armed last must        *)
(* therefore be one that has fired, not one that is still running.         *)
(***************************************************************************)
C30_Step ==
    ( /\ Handles
      /\ Head(session.event_q).type = "timeout"
      /\ session'.status = "ERROR_NO_RESPONSE" )
    => session.timer.obj = "fired"

C30_OnlyLastTimerEnds == [][C30_Step]_vars

(***************************************************************************)
(* C31.  The router never puts a frame in the queue of a session whose     *)
(* status is already terminal: however on_data_received interleaves with   *)
(* the terminal transition of a session and with its finish callback, a    *)
(* frame of key k reaches a session that is still ONGOING or creates a new *)
(* session.                                                                *)
(***************************************************************************)
\* This step puts a frame in the queue of session object i.
C31_FramePut(i) ==
    /\ Len(objects'[i].event_q) = Len(objects[i].event_q) + 1
    /\ objects'[i].event_q[Len(objects'[i].event_q)].type = "packet_rxd"

C31_Step ==
    \A i \in DOMAIN objects : C31_FramePut(i) => objects[i].status = "ONGOING"

C31_NoFrameToTerminalSession == [][C31_Step]_vars

(***************************************************************************)
(* C32.  Whenever a session calls the finish callback, the session table   *)
(* maps the key of the session to that very session: the lookup of the     *)
(* callback never fails, and the entry it deletes is never the entry of    *)
(* another, newer session of the same key.                                 *)
(***************************************************************************)
C32_Step ==
    Len(finished') = Len(finished) + 1 =>
        LET call == finished'[Len(finished')]
        IN  /\ Registered(sessions, call.key)
            /\ sessions[call.key] = call.obj

C32_FinishFindsOwnEntry == [][C32_Step]_vars

(***************************************************************************)
(* C33.  All the DATA frames one session sends carry the bundle of one and *)
(* the same UID, the UID of the START that opened the session: a later     *)
(* START of the same key with another UID never makes the session send the *)
(* bundle of another node.                                                 *)
(***************************************************************************)
\* The bundle a DATA frame carries, in clear or as the text encrypted.
C33_BundleOf(payload) ==
    IF KeyIndexOf(payload) = 0 THEN payload.data ELSE payload.data.text

C33_OneBundlePerSession ==
    \A i, j \in SentData :
        C33_BundleOf(sent[i].payload) = C33_BundleOf(sent[j].payload)

(***************************************************************************)
(* C34.  Every send of a session is addressed to a gw_id and a sink_id     *)
(* taken from a frame the session has handled: they are never unset when a *)
(* frame is sent, whatever the tx_time of the frames received, a tx_time   *)
(* of 0 included.                                                          *)
(***************************************************************************)
C34_OriginSetAtSend ==
    \A i \in 1..Len(sent) :
        /\ sent[i].gw_id # NewSession(0).gw_id
        /\ sent[i].sink_id # NewSession(0).sink_id
        /\ \E o \in OriginEnvelopes :
              sent[i].gw_id = o.gw_id /\ sent[i].sink_id = o.sink_id

(***************************************************************************)
(* C35.  The status SUCCESS is reached only by a session of which a DATA   *)
(* send returned GW_RES_OK before: it is set by a DATA_ACK handled in      *)
(* WAIT_RESPONSE and by nothing else, never in IDLE and never when every   *)
(* DATA send of the session has failed.                                    *)
(***************************************************************************)
C35_Step ==
    /\ session'.status = "SUCCESS" /\ session.status # "SUCCESS" =>
          /\ HandlesFrame(DATA_ACK)
          /\ session.state = "WAIT_RESPONSE"
    /\ session'.status = "SUCCESS" => SentData \cap SentOk # {}

C35_SuccessNeedsDataSent == [][C35_Step]_vars

\* The first attempt to send the DATA failed, the second went out, and the
\* DATA_ACK that followed made the status SUCCESS.
C35_Witness ==
    /\ session.status = "SUCCESS"
    /\ Len(sent) = 2
    /\ sent[1].res # "GW_RES_OK"
    /\ sent[2].res = "GW_RES_OK"
    /\ IsData(sent[2].payload)

(***************************************************************************)
(* C36.  Whenever a session whose status is ONGOING is about to dequeue an *)
(* event, its retry counter is at least 0: a session that has driven retry *)
(* below 0 is always terminal.                                             *)
(***************************************************************************)
C36_RetryNotNegativeWhileOngoing ==
    /\ session.pc = "run" /\ Ongoing => session.retry >= 0
    /\ session.retry < 0 => ~Ongoing

\* An ONGOING session is about to dequeue an event with its budget down to
\* 0: one attempt failed before the DATA went out.
C36_Witness ==
    /\ session.pc = "run"
    /\ Ongoing
    /\ session.retry = 0
    /\ session.event_q # <<>>
    /\ session.state = "WAIT_RESPONSE"

(***************************************************************************)
(* C37.  At any time a session has at most one armed timeout timer, that   *)
(* is one started and neither fired nor cancelled: arming a new timer      *)
(* always cancels and joins the previous one first.  Cancelling never      *)
(* blocks for ever, not even when the timer has already fired: the handler *)
(* that cancels a fired timer completes.                                   *)
(***************************************************************************)
C37_Step ==
    /\ session.running \in {0, 1}
    /\ session'.running \in {0, 1}
    /\ session'.running = 1 <=> session'.timer.obj = "armed"
    /\ C23_Arms => session'.running = 1
    /\ ( /\ Handles
         /\ session.timer.obj = "fired"
         /\ session.state = "WAIT_RESPONSE"
         /\ Head(session.event_q).type = "timeout" )
       => session'.pc = "run" /\ session'.timer = NoTimer

C37_AtMostOneArmedTimer == [][C37_Step]_vars

\* A retransmission replaced a running timer by a new one, the new one
\* fired, and the handler of its Timeout cancelled it and completed.
C37_Witness ==
    /\ Len(sent) = 2
    /\ \A i \in 1..2 : sent[i].res = "GW_RES_OK" /\ IsData(sent[i].payload)
    /\ session.status = "ERROR_NO_RESPONSE"
    /\ session.timer = NoTimer
    /\ session.running = 0
    /\ session.pc = "run"

(***************************************************************************)
(* C38.  Send retries within one emission send the same frame again: when  *)
(* a DATA send fails and is retried, the session counter is not            *)
(* incremented and the payload of the retry equals that of the first       *)
(* attempt.  Only the handling of a START changes the counter or builds a  *)
(* DATA frame, so two consecutive DATA frames with different counters are  *)
(* separated by a successful send and a newly handled START.               *)
(***************************************************************************)
C38_Retried ==
    /\ session.pc = "send_data"
    /\ Sends
    /\ Sent.res # "GW_RES_OK"
    /\ session'.pc = "send_data"

C38_Step ==
    /\ (session.pc = "send_data" /\ Sends) => Sent.payload = session.pkt
    /\ C38_Retried =>
          /\ session'.counter = session.counter
          /\ session'.pkt = Sent.payload
    /\ session'.counter # session.counter => HandlesFrame(START)
    /\ (IsData(session'.pkt) /\ session'.pkt # session.pkt) => HandlesFrame(START)
    /\ \A i \in SentData :
          (i < Len(sent) /\ sent[i].res # "GW_RES_OK") =>
              sent[i + 1].payload = sent[i].payload

C38_RetrySendsSameFrame == [][C38_Step]_vars

\* An encrypted DATA frame failed once and was sent again, unchanged.
C38_Witness ==
    /\ Len(sent) = 2
    /\ IsData(sent[1].payload)
    /\ KeyIndexOf(sent[1].payload) = 1
    /\ sent[1].res # "GW_RES_OK"
    /\ sent[2].res = "GW_RES_OK"
    /\ sent[2].payload = sent[1].payload
    /\ session.counter = CounterOf(sent[2].payload)
    /\ session.retry = DefaultRetry - 1

(***************************************************************************)
(* C39.  The state of a session is always IDLE or WAIT_RESPONSE and no     *)
(* step takes it from WAIT_RESPONSE back to IDLE; the statuses             *)
(* ERROR_INVALID_STATE, FAILURE and ERROR_NO_ACK are never set, hence      *)
(* never the status the finish callback is called with.                    *)
(***************************************************************************)
C39_NeverReported == {"ERROR_INVALID_STATE", "FAILURE", "ERROR_NO_ACK"}

C39_Step ==
    /\ session.state \in {"IDLE", "WAIT_RESPONSE"}
    /\ session'.state \in {"IDLE", "WAIT_RESPONSE"}
    /\ session.state = "WAIT_RESPONSE" => session'.state = "WAIT_RESPONSE"
    /\ session'.status \notin C39_NeverReported
    /\ session'.pc = "finished" => session'.status \notin C39_NeverReported

C39_StatesAndStatuses == [][C39_Step]_vars

\* A session that failed to send the DATA frame again in WAIT_RESPONSE has
\* called the finish callback, its state still WAIT_RESPONSE.
C39_Witness ==
    /\ session.pc = "finished"
    /\ session.state = "WAIT_RESPONSE"
    /\ session.status = "ERROR_SENDING_DATA"
    /\ sent[1].res = "GW_RES_OK"

(***************************************************************************)
(* C40.  Session isolation.  A step in which one session handles an event  *)
(* (dequeues it, sends for it, or ends) leaves the state, status, counter, *)
(* retry, origin (gw_id, sink_id, tx_time), timer and event queue of every *)
(* other session unchanged, and leaves the loaded configuration unchanged; *)
(* no step changes two sessions at once.                                   *)
(***************************************************************************)
C40_Fields(s) ==
    <<s.state, s.status, s.counter, s.retry, s.gw_id, s.sink_id, s.tx_time,
      s.timer, s.event_q>>

\* This step is one taken by the thread of session object i: every step of
\* run() and of the handlers moves the thread, takes an event or spends a
\* retry.
C40_ThreadStep(i) ==
    \/ objects'[i].pc # objects[i].pc
    \/ Len(objects'[i].event_q) < Len(objects[i].event_q)
    \/ objects'[i].retry # objects[i].retry

C40_Step ==
    /\ \A i \in DOMAIN objects :
          C40_ThreadStep(i) =>
              /\ Len(objects') = Len(objects)
              /\ \A j \in DOMAIN objects \ {i} :
                    C40_Fields(objects'[j]) = C40_Fields(objects[j])
              /\ config' = config
    /\ \A i, j \in DOMAIN objects :
          (i # j /\ objects'[i] # objects[i]) => objects'[j] = objects[j]

C40_SessionIsolation == [][C40_Step]_vars

\* Two sessions side by side: the first has served its START and waits for
\* the response, the second still holds its first event, untouched.
C40_Witness ==
    /\ Len(objects) = 2
    /\ objects[1].state = "WAIT_RESPONSE"
    /\ objects[1].timer.obj = "armed"
    /\ objects[1].event_q = <<>>
    /\ objects[2].pc = "run"
    /\ objects[2].state = "IDLE"
    /\ objects[2].status = "ONGOING"
    /\ objects[2].retry = DefaultRetry
    /\ objects[2].timer = NoTimer
    /\ Len(objects[2].event_q) = 1
    /\ objects[2].session_id # objects[1].session_id
====
